---- MODULE Spec2Model ----
(***************************************************************************)
(* Model of the pole report reconciliation engine (PoleDataProcessor and   *)
(* the Katapult data processor).  Strings are sequences of one-character   *)
(* strings, so that the regular expressions, substring tests, parseFloat   *)
(* and the height formatter are modelled by what they do to characters.    *)
(***************************************************************************)
EXTENDS Integers, Sequences, FiniteSets, TLC

VARIABLES norm, hgt, mid, dsg, hdr, xls, firstRun,
          \* the fields of PoleDataProcessor
          spidaData, katapultData, processedPoles, errors, poleLookupMap,
          katapultPoleLookupMap, operationCounter,
          \* processData: its position, the index of the next location, its
          \* return value, and per location visited the node looked up for it
          \* and how the iteration ended
          pc, idx, ret, visited, loads

procVars == <<spidaData, katapultData, processedPoles, errors, poleLookupMap,
              katapultPoleLookupMap, operationCounter, pc, idx, ret, visited, loads>>
vars == <<norm, hgt, mid, dsg, hdr, xls, firstRun, procVars>>

(***************************************************************************)
(* Bounds                                                                  *)
(***************************************************************************)
MaxIdLen == 3
MaxInchCount == 400
MaxObs == 2
MaxLocations == 10
MaxShort == 2
MaxLoads == 2
MaxDesigns == 3

(***************************************************************************)
(* Characters and strings                                                  *)
(***************************************************************************)
UpperSeq == <<"A","B","C","D","E","F","G","H","I","J","K","L","M",
              "N","O","P","Q","R","S","T","U","V","W","X","Y","Z">>
LowerSeq == <<"a","b","c","d","e","f","g","h","i","j","k","l","m",
              "n","o","p","q","r","s","t","u","v","w","x","y","z">>
DigitSeq == <<"0","1","2","3","4","5","6","7","8","9">>

Range(s) == {s[i] : i \in DOMAIN s}

IsUpper(c) == c \in Range(UpperSeq)
IsLower(c) == c \in Range(LowerSeq)
IsDigit(c) == c \in Range(DigitSeq)
IsAlnum(c) == IsUpper(c) \/ IsLower(c) \/ IsDigit(c)

IndexIn(c, s) == CHOOSE i \in DOMAIN s : s[i] = c

ToLowerChar(c) == IF IsUpper(c) THEN LowerSeq[IndexIn(c, UpperSeq)] ELSE c
ToUpperChar(c) == IF IsLower(c) THEN UpperSeq[IndexIn(c, LowerSeq)] ELSE c

ToLowerCase(s) == [i \in DOMAIN s |-> ToLowerChar(s[i])]
ToUpperCase(s) == [i \in DOMAIN s |-> ToUpperChar(s[i])]

DigitVal(c) == IndexIn(c, DigitSeq) - 1

\* s.substring(k) with k counted from 0: drops the first k characters
Substring(s, k) == SubSeq(s, k + 1, Len(s))

StartsWith(s, p) == Len(p) <= Len(s) /\ SubSeq(s, 1, Len(p)) = p

\* s.includes(p)
Includes(s, p) ==
  \E i \in 1..(Len(s) + 1) :
    i + Len(p) - 1 <= Len(s) /\ SubSeq(s, i, i + Len(p) - 1) = p

\* length of the run of digits that starts at position i of s
RECURSIVE DigitRun(_, _)
DigitRun(s, i) ==
  IF i <= Len(s) /\ IsDigit(s[i]) THEN 1 + DigitRun(s, i + 1) ELSE 0

\* number of leading characters of s that are not alphanumeric
RECURSIVE NonAlnumRun(_, _)
NonAlnumRun(s, i) ==
  IF i <= Len(s) /\ ~IsAlnum(s[i]) THEN 1 + NonAlnumRun(s, i + 1) ELSE 0

\* String(s).trim(): blanks removed at both ends
RECURSIVE TrimLeft(_)
TrimLeft(s) == IF s # <<>> /\ Head(s) = " " THEN TrimLeft(Tail(s)) ELSE s
RECURSIVE TrimRight(_)
TrimRight(s) ==
  IF s # <<>> /\ s[Len(s)] = " " THEN TrimRight(SubSeq(s, 1, Len(s) - 1)) ELSE s
Trim(s) == TrimRight(TrimLeft(s))

\* value of a sequence of digit characters
RECURSIVE DigitsToNum(_)
DigitsToNum(s) ==
  IF s = <<>> THEN 0
  ELSE 10 * DigitsToNum(SubSeq(s, 1, Len(s) - 1)) + DigitVal(s[Len(s)])

\* decimal rendering of a natural number (template literal `${n}`)
RECURSIVE NumToStr(_)
NumToStr(n) ==
  IF n < 10 THEN <<DigitSeq[n + 1]>>
  ELSE NumToStr(n \div 10) \o <<DigitSeq[(n % 10) + 1]>>

Unknown == <<"U","n","k","n","o","w","n">>
NA == <<"N","/","A">>
UG == <<"U","G">>

(***************************************************************************)
(* Identifier normalizer                                                   *)
(***************************************************************************)

\* poleID.match(/[A-Z]{2}\d+/): the leftmost match, digits taken greedily;
\* <<>> stands for "no match" (a match is never empty)
MatchTwoLettersDigits(s) ==
  LET starts == {i \in 1..Len(s) :
                   /\ i + 2 <= Len(s)
                   /\ IsUpper(s[i]) /\ IsUpper(s[i + 1]) /\ IsDigit(s[i + 2])}
  IN IF starts = {} THEN <<>>
     ELSE LET i == CHOOSE k \in starts : \A m \in starts : k <= m
          IN SubSeq(s, i, i + 1 + DigitRun(s, i + 2))

\* poleID.match(/[A-Z]{1,2}[0-9]+/): leftmost match, two letters preferred
\* to one at the same start, digits taken greedily
MatchLettersDigits(s) ==
  LET two(i) == i + 2 <= Len(s) /\ IsUpper(s[i]) /\ IsUpper(s[i + 1])
                  /\ IsDigit(s[i + 2])
      one(i) == i + 1 <= Len(s) /\ IsUpper(s[i]) /\ IsDigit(s[i + 1])
      starts == {i \in 1..Len(s) : two(i) \/ one(i)}
  IN IF starts = {} THEN <<>>
     ELSE LET i == CHOOSE k \in starts : \A m \in starts : k <= m
          IN IF two(i) THEN SubSeq(s, i, i + 1 + DigitRun(s, i + 2))
             ELSE SubSeq(s, i, i + DigitRun(s, i + 1))

\* poleID.replace(/^\d+-/, '')
StripNumericPrefix(s) ==
  LET d == DigitRun(s, 1)
  IN IF d >= 1 /\ d + 1 <= Len(s) /\ s[d + 1] = "-" THEN Substring(s, d + 1)
     ELSE s

\* PoleDataProcessor._canonicalizePoleID
_canonicalizePoleID(poleID) ==
  IF poleID = <<>> THEN Unknown
  ELSE IF MatchTwoLettersDigits(poleID) # <<>> THEN MatchTwoLettersDigits(poleID)
  ELSE IF MatchLettersDigits(poleID) # <<>> THEN MatchLettersDigits(poleID)
  ELSE StripNumericPrefix(poleID)

\* the ordered prefix list of poleUtils.canonicalizePoleID
Prefixes == << <<"P","O","L","E">>, <<"P","O","L","E","-">>, <<"P","L","-">>,
               <<"P","L">>, <<"P","-">>, <<"P">> >>

\* the for loop over prefixes: the first prefix that matches is removed
StripFirstPrefix(id) ==
  LET hits == {k \in DOMAIN Prefixes : StartsWith(ToUpperCase(id), Prefixes[k])}
  IN IF hits = {} THEN id
     ELSE LET k == CHOOSE h \in hits : \A m \in hits : h <= m
          IN Substring(id, Len(Prefixes[k]))

\* poleUtils.canonicalizePoleID
canonicalizePoleID(poleId) ==
  IF poleId = <<>> THEN Unknown
  ELSE LET id1 == StripFirstPrefix(Trim(poleId))
           id2 == Substring(id1, NonAlnumRun(id1, 1))
       IN IF id2 = <<>> THEN Unknown ELSE id2

(***************************************************************************)
(* Height parser and formatter                                             *)
(***************************************************************************)

\* parseFloat on a string without sign, point or exponent: the value of the
\* leading run of digits, NaN when the string does not start with a digit
ParseFloat(s) ==
  LET d == DigitRun(s, 1)
  IN IF d = 0 THEN [nan |-> TRUE, v |-> 0]
     ELSE [nan |-> FALSE, v |-> DigitsToNum(SubSeq(s, 1, d))]

\* the "ft:in" branch: split(':') must give exactly two parts
ColonParts(s) ==
  LET cols == {i \in 1..Len(s) : s[i] = ":"}
  IN IF Cardinality(cols) # 1 THEN <<>>
     ELSE LET i == CHOOSE k \in cols : TRUE
          IN << SubSeq(s, 1, i - 1), SubSeq(s, i + 1, Len(s)) >>

\* length of the run of '-' and blanks that starts at position i of s
RECURSIVE SeparatorRun(_, _)
SeparatorRun(s, i) ==
  IF i <= Len(s) /\ s[i] \in {"-", " "} THEN 1 + SeparatorRun(s, i + 1) ELSE 0

\* heightStr.match(/(\d+)'[-\s]*(\d+)"/): leftmost match, first group greedy
FeetInchesMatch(s) ==
  LET sepRun(i) == SeparatorRun(s, i)
      ok(i) ==
        LET d1 == DigitRun(s, i)
            q == i + d1
            sp == IF q <= Len(s) /\ s[q] = "'" THEN sepRun(q + 1) ELSE 0
            j == q + 1 + sp
            d2 == DigitRun(s, j)
        IN /\ d1 >= 1 /\ q <= Len(s) /\ s[q] = "'"
           /\ d2 >= 1 /\ j + d2 <= Len(s) /\ s[j + d2] = "\""
      starts == {i \in 1..Len(s) : ok(i)}
  IN IF starts = {} THEN [found |-> FALSE, feet |-> 0, inches |-> 0]
     ELSE LET i == CHOOSE k \in starts : \A m \in starts : k <= m
              d1 == DigitRun(s, i)
              q == i + d1
              j == q + 1 + sepRun(q + 1)
              d2 == DigitRun(s, j)
          IN [found |-> TRUE,
              feet |-> DigitsToNum(SubSeq(s, i, q - 1)),
              inches |-> DigitsToNum(SubSeq(s, j, j + d2 - 1))]

NullHeight == [null |-> TRUE, v |-> 0]
SomeHeight(n) == [null |-> FALSE, v |-> n]

\* parseHeightToInches applied to a string
parseHeightToInches(heightValue) ==
  LET heightStr == Trim(heightValue)
      numericValue == ParseFloat(heightStr)
      parts == ColonParts(heightStr)
      m == FeetInchesMatch(heightStr)
  IN IF heightStr = <<>> THEN NullHeight
     ELSE IF ~numericValue.nan THEN SomeHeight(numericValue.v)
     ELSE IF parts # <<>> /\ ~ParseFloat(parts[1]).nan /\ ~ParseFloat(parts[2]).nan
       THEN SomeHeight(ParseFloat(parts[1]).v * 12 + ParseFloat(parts[2]).v)
     ELSE IF m.found THEN SomeHeight(m.feet * 12 + m.inches)
     ELSE NullHeight

\* `${feet}'-${inches}"`
FeetInchesString(feet, inches) ==
  NumToStr(feet) \o <<"'", "-">> \o NumToStr(inches) \o <<"\"">>

\* formatHeightToString; heights are whole inches, so Math.round is exact
formatHeightToString(heightInches) ==
  IF heightInches.null THEN NA
  ELSE LET feet == heightInches.v \div 12
           inches == heightInches.v % 12
       IN IF inches = 12 THEN FeetInchesString(feet + 1, 0)
          ELSE FeetInchesString(feet, inches)

(***************************************************************************)
(* Words of the documents                                                  *)
(***************************************************************************)
Empty == <<>>
Blank == <<" ">>
W_unknown == <<"U","n","k","n","o","w","n">>
W_aerial == <<"a","e","r","i","a","l">>
W_underground == <<"u","n","d","e","r","g","r","o","u","n","d">>
W_path == <<"_","p","a","t","h">>
W_aerial_path == W_aerial \o W_path
W_underground_path == W_underground \o W_path
W_ref == <<"r","e","f">>
W_service == <<"s","e","r","v","i","c","e">>
W_drop == <<"d","r","o","p">>
W_fiber == <<"f","i","b","e","r">>
W_primary == <<"p","r","i","m","a","r","y">>
W_neutral == <<"n","e","u","t","r","a","l">>
W_atandt == <<"a","t","&","t">>
W_att == <<"a","t","t">>
W_charter == <<"c","h","a","r","t","e","r">>
W_spectrum == <<"s","p","e","c","t","r","u","m">>
W_cps == <<"c","p","s">>
W_CPS == <<"C","P","S">>
W_ATT == <<"A","T","T">>
W_ATandT == <<"A","T","&","T">>
W_Fiber == <<"F","i","b","e","r">>
W_Coax == <<"C","o","a","x">>
W_CoaxTrunk == W_Coax \o <<" ","T","r","u","n","k">>
W_Primary == <<"P","r","i","m","a","r","y">>
W_MeasuredDesign == <<"M","e","a","s","u","r","e","d"," ","D","e","s","i","g","n">>
W_RecommendedDesign ==
  <<"R","e","c","o","m","m","e","n","d","e","d"," ","D","e","s","i","g","n">>
W_Backspan == <<"B","a","c","k","s","p","a","n">>

(***************************************************************************)
(* Field survey (Katapult) document and processKatapultData                *)
(*                                                                         *)
(* A connection of the document carries node_id_1, node_id_2, button_type  *)
(* and obs, the wire instances of the photos of its sections in the order  *)
(* the nested for-in loops visit them.  Each instance has a trace_id, a    *)
(* height in whole inches (null when it does not parse) and mr_move (0     *)
(* when absent or zero); traces maps a trace id to company and cable_type. *)
(***************************************************************************)

\* the trace ids of obs in order of first occurrence: the key order of
\* connection.wires
RECURSIVE TraceOrder(_)
TraceOrder(obs) ==
  IF obs = <<>> THEN <<>>
  ELSE LET front == TraceOrder(SubSeq(obs, 1, Len(obs) - 1))
           t == obs[Len(obs)].trace_id
       IN IF t \in Range(front) THEN front ELSE Append(front, t)

\* Math.min(...heights) of a non-empty set of numbers
MinOf(S) == CHOOSE m \in S : \A x \in S : m <= x

\* the midspanObservations pushed for trace t: instances whose height parsed
MidspanObservations(obs, t) ==
  LET sel == {i \in DOMAIN obs : obs[i].trace_id = t /\ ~obs[i].height.null}
      pick[i \in 0..Len(obs)] ==
        IF i = 0 THEN <<>>
        ELSE IF i \in sel
          THEN Append(pick[i - 1],
                 [originalHeightInches |-> obs[i].height.v,
                  proposedHeightInches |->
                    IF obs[i].mr_move # 0
                      THEN SomeHeight(obs[i].height.v + obs[i].mr_move)
                    ELSE IF obs[i].effective_moves THEN SomeHeight(obs[i].height.v)
                    ELSE NullHeight])
          ELSE pick[i - 1]
  IN pick[Len(obs)]

\* the aggregation step of processKatapultData for one wire
WireDataOf(doc, obs, t) ==
  LET mo == MidspanObservations(obs, t)
      existing == {mo[i].originalHeightInches : i \in DOMAIN mo}
      proposed == {mo[i].proposedHeightInches.v :
                     i \in {k \in DOMAIN mo : ~mo[k].proposedHeightInches.null}}
  IN [traceId |-> t,
      company |-> IF t \in DOMAIN doc.traces /\ doc.traces[t].company # Empty
                    THEN doc.traces[t].company ELSE W_unknown,
      cableType |-> IF t \in DOMAIN doc.traces /\ doc.traces[t].cable_type # Empty
                      THEN doc.traces[t].cable_type ELSE W_unknown,
      midspanObservations |-> mo,
      lowestExistingMidspanHeight |->
        IF existing = {} THEN NullHeight ELSE SomeHeight(MinOf(existing)),
      finalProposedMidspanHeight |->
        IF proposed = {} THEN NullHeight ELSE SomeHeight(MinOf(proposed))]

\* processKatapultData: one ConnectionData per connection of the document
processKatapultData(doc) ==
  [i \in DOMAIN doc.connections |->
     LET c == doc.connections[i]
         order == TraceOrder(c.obs)
     IN [connectionId |-> i,
         fromPoleId |-> c.node_id_1,
         toPoleId |-> c.node_id_2,
         buttonType |-> c.button_type,
         isRefConnection |-> (c.button_type = W_ref),
         wires |-> [k \in DOMAIN order |-> WireDataOf(doc, c.obs, order[k])]]]

(***************************************************************************)
(* Design survey (SPIDA) wires                                             *)
(*                                                                         *)
(* attachmentHeight.value is a length in metres; the model draws it among  *)
(* the lengths that are a whole number of half inches and stores that      *)
(* number, so _metersToFeet(value) * 12 is value / 2 inches.               *)
(***************************************************************************)
NoValue == [present |-> FALSE, v |-> 0]
Value(n) == [present |-> TRUE, v |-> n]

\* _metersToFeetInches: wholeFeet = floor(feet), inches = round of the rest,
\* with the carry when the inches round up to 12
_metersToFeetInches(meters) ==
  IF ~meters.present THEN NA
  ELSE LET wholeFeet == meters.v \div 24
           inches == ((meters.v % 24) + 1) \div 2
       IN IF inches = 12 THEN FeetInchesString(wholeFeet + 1, 0)
          ELSE FeetInchesString(wholeFeet, inches)

\* `${a} ${b}`.trim() and `${a} ${b} ${c}`.trim()
Join2(a, b) == Trim(a \o Blank \o b)
Join3(a, b, c) == Trim(a \o Blank \o b \o Blank \o c)

\* _getAttachmentDescription
_getAttachmentDescription(wire) ==
  IF wire.description # Empty THEN Join2(wire.owner, wire.description)
  ELSE IF wire.size # Empty THEN Join3(wire.owner, wire.size, wire.type)
  ELSE Join2(wire.owner, wire.type)

(***************************************************************************)
(* Mid-span proposed height: _getMidSpanProposedHeight                     *)
(***************************************************************************)
OwnerExact == 25
OwnerPartial == 15
TypeExact == 20
TypePartial == 10
AliasBonus == 10
KeywordBonus == 10
HeightBonusMax == 5
HeightWindowInches == 60
AcceptanceThreshold == 10

\* scores are kept in units of 1/24 point: the height bonus 5 - diff / 12
\* has diff in half inches
ScoreUnit == 2 * 12

\* index of the first element of seq that satisfies P, 0 when there is none
FirstIndex(seq, P(_)) ==
  LET hits == {i \in DOMAIN seq : P(seq[i])}
  IN IF hits = {} THEN 0 ELSE CHOOSE i \in hits : \A j \in hits : i <= j

\* seq.filter(P)
Filter(seq, P(_)) == SelectSeq(seq, P)

IsUndergroundType(buttonType) ==
  buttonType = W_underground_path \/ Includes(buttonType, W_underground)

\* the underground check without the reverse direction of a span
UndergroundCandidates_forward(connections, fromPoleId, toPoleId, isRefConnection) ==
  LET touches(c) ==
        \/ Includes(c.fromPoleId, fromPoleId) /\ Includes(c.toPoleId, toPoleId)
        \/ isRefConnection /\ Includes(c.fromPoleId, fromPoleId)
  IN Filter(connections, touches)

\* the connections inspected by the underground check
UndergroundCandidates(connections, fromPoleId, toPoleId, isRefConnection) ==
  LET touches(c) ==
        \/ Includes(c.fromPoleId, fromPoleId) /\ Includes(c.toPoleId, toPoleId)
        \/ Includes(c.fromPoleId, toPoleId) /\ Includes(c.toPoleId, fromPoleId)
        \/ isRefConnection /\ (Includes(c.fromPoleId, fromPoleId)
                                 \/ Includes(c.toPoleId, fromPoleId))
  IN Filter(connections, touches)

hasUndergroundPath(connections, fromPoleId, toPoleId, isRefConnection) ==
  LET cs == UndergroundCandidates(connections, fromPoleId, toPoleId, isRefConnection)
  IN \E i \in DOMAIN cs : IsUndergroundType(cs[i].buttonType)

\* spidaWire.clientItem?.description || type || size || ""
SpidaTypeOf(spidaWire) ==
  IF spidaWire.description # Empty THEN spidaWire.description
  ELSE IF spidaWire.type # Empty THEN spidaWire.type
  ELSE spidaWire.size

\* spidaWire.attachmentHeight?.value || 0, in half inches
SpidaAttachHeight(spidaWire) ==
  IF spidaWire.attachmentHeight.present THEN spidaWire.attachmentHeight.v ELSE 0

\* the connection whose wires are searched; a record with found = FALSE when
\* there is none
NoConnection == [found |-> FALSE, c |-> <<>>]
SomeConnection(c) == [found |-> TRUE, c |-> c]

\* the element of seq at index i, none for index 0
ConnectionAt(seq, i) == IF i = 0 THEN NoConnection ELSE SomeConnection(seq[i])

\* matchingConnection = ...; if (!matchingConnection) matchingConnection = ...
OrElse(found, other) == IF found.found THEN found ELSE other

\* the narrowing of fromPoleConnections for a service or drop description
NarrowToService(fromPoleConnections, attacherDescription) ==
  LET descriptionLower == ToLowerCase(attacherDescription)
      isService(c) == Includes(c.buttonType, W_service)
                        \/ Includes(c.buttonType, W_drop)
                        \/ c.buttonType = W_ref
      serviceConnections == Filter(fromPoleConnections, isService)
  IN IF (Includes(descriptionLower, W_service) \/ Includes(descriptionLower, W_drop))
          /\ serviceConnections # <<>>
       THEN serviceConnections
     ELSE fromPoleConnections

\* the choice among fromPoleConnections for a REF span: a ref connection,
\* then a service or drop, then any non-aerial one, then the first
RefConnectionOf(fromPoleConnections) ==
  LET isRef(c) == c.isRefConnection
      isDrop(c) == Includes(c.buttonType, W_service) \/ Includes(c.buttonType, W_drop)
      notAerial(c) == ~Includes(c.buttonType, W_aerial)
  IN OrElse(ConnectionAt(fromPoleConnections, FirstIndex(fromPoleConnections, isRef)),
       OrElse(ConnectionAt(fromPoleConnections, FirstIndex(fromPoleConnections, isDrop)),
         OrElse(ConnectionAt(fromPoleConnections,
                             FirstIndex(fromPoleConnections, notAerial)),
                ConnectionAt(fromPoleConnections,
                             IF fromPoleConnections = <<>> THEN 0 ELSE 1))))

\* matchingConnection of _getMidSpanProposedHeight
MatchingConnection(connections, fromPoleId, toPoleId, attacherDescription, isRefConnection) ==
  LET touchesFrom(c) == Includes(c.fromPoleId, fromPoleId)
                          \/ Includes(c.toPoleId, fromPoleId)
      direct(c) ==
        \/ Includes(c.fromPoleId, fromPoleId) /\ Includes(c.toPoleId, toPoleId)
        \/ Includes(c.fromPoleId, toPoleId) /\ Includes(c.toPoleId, fromPoleId)
  IN IF isRefConnection
       THEN RefConnectionOf(NarrowToService(Filter(connections, touchesFrom),
                                            attacherDescription))
     ELSE ConnectionAt(connections, FirstIndex(connections, direct))

Abs(x) == IF x < 0 THEN -x ELSE x

\* the match score of one field-survey wire, in units of 1/ScoreUnit point
MatchScore(wire, spidaWire, attacherDescription) ==
  LET wireOwner == ToLowerCase(wire.company)
      wireTypeLower == ToLowerCase(wire.cableType)
      spidaOwner == ToLowerCase(spidaWire.owner)
      spidaType == ToLowerCase(SpidaTypeOf(spidaWire))
      spidaDescLower == ToLowerCase(attacherDescription)
      ownerScore ==
        IF wireOwner = spidaOwner THEN OwnerExact
        ELSE IF Includes(wireOwner, spidaOwner) \/ Includes(spidaOwner, wireOwner)
          THEN OwnerPartial
        ELSE 0
      typeScore ==
        IF wireTypeLower = spidaType THEN TypeExact
        ELSE IF Includes(wireTypeLower, spidaType) \/ Includes(spidaType, wireTypeLower)
          THEN TypePartial
        ELSE 0
      aliasScore ==
        IF \/ Includes(spidaDescLower, W_atandt) /\ Includes(wireOwner, W_att)
           \/ Includes(spidaDescLower, W_att) /\ Includes(wireOwner, W_atandt)
           \/ Includes(spidaDescLower, W_charter) /\ Includes(wireOwner, W_spectrum)
           \/ Includes(spidaDescLower, W_spectrum) /\ Includes(wireOwner, W_charter)
           \/ Includes(spidaDescLower, W_cps) /\ Includes(wireOwner, W_cps)
          THEN AliasBonus ELSE 0
      keywordScore ==
        IF \E w \in {W_fiber, W_service, W_drop, W_primary, W_neutral} :
             Includes(spidaDescLower, w) /\ Includes(wireTypeLower, w)
          THEN KeywordBonus ELSE 0
      mo == wire.midspanObservations
      diffs == {Abs(2 * mo[i].originalHeightInches - SpidaAttachHeight(spidaWire)) :
                  i \in DOMAIN mo}
      heightScore ==
        IF mo = <<>> THEN 0
        ELSE IF MinOf(diffs) < 2 * HeightWindowInches
          THEN HeightBonusMax * ScoreUnit - MinOf(diffs)
        ELSE 0
  IN (ownerScore + typeScore + aliasScore + keywordScore) * ScoreUnit + heightScore

\* if (matchScore >= 10)
\* acceptance with a strict comparison
Accepted_strict(score) == score > AcceptanceThreshold * ScoreUnit

\* if (matchScore >= 10)
Accepted(score) == score >= AcceptanceThreshold * ScoreUnit

\* wireMatches holding every scored wire, the threshold left out
WireMatches_all(wires, spidaWire, attacherDescription) ==
  LET sc(i) == MatchScore(wires[i], spidaWire, attacherDescription)
      acc == DOMAIN wires
      before(i, j) == sc(i) > sc(j) \/ (sc(i) = sc(j) /\ i < j)
      rank(i) == 1 + Cardinality({j \in acc : before(j, i)})
  IN [r \in 1..Cardinality(acc) |-> CHOOSE i \in acc : rank(i) = r]

\* wireMatches after the sort: positions of the accepted wires, highest score
\* first, equal scores in the order encountered (the sort is stable)
WireMatches(wires, spidaWire, attacherDescription) ==
  LET sc(i) == MatchScore(wires[i], spidaWire, attacherDescription)
      acc == {i \in DOMAIN wires : Accepted(sc(i))}
      before(i, j) == sc(i) > sc(j) \/ (sc(i) = sc(j) /\ i < j)
      rank(i) == 1 + Cardinality({j \in acc : before(j, i)})
  IN [r \in 1..Cardinality(acc) |-> CHOOSE i \in acc : rank(i) = r]

Parenthesised(s) == <<"(">> \o s \o <<")">>

\* the existing height returned without parentheses
MidSpanValueOf_bare(matchingWire) ==
  IF ~matchingWire.finalProposedMidspanHeight.null
    THEN formatHeightToString(matchingWire.finalProposedMidspanHeight)
  ELSE IF ~matchingWire.lowestExistingMidspanHeight.null
    THEN formatHeightToString(matchingWire.lowestExistingMidspanHeight)
  ELSE NA

\* the value returned for the best match: its proposed height, else its
\* existing height in parentheses, else "N/A"
MidSpanValueOf(matchingWire) ==
  IF ~matchingWire.finalProposedMidspanHeight.null
    THEN formatHeightToString(matchingWire.finalProposedMidspanHeight)
  ELSE IF ~matchingWire.lowestExistingMidspanHeight.null
    THEN Parenthesised(formatHeightToString(matchingWire.lowestExistingMidspanHeight))
  ELSE NA

\* the last of the matches taken in place of the first
BestMatchValue_last(wires, wireMatches) ==
  IF wireMatches = <<>> THEN NA ELSE MidSpanValueOf(wires[wireMatches[Len(wireMatches)]])

\* wireMatches[0].wire when there is a match
BestMatchValue(wires, wireMatches) ==
  IF wireMatches = <<>> THEN NA ELSE MidSpanValueOf(wires[wireMatches[1]])

\* the TypeError thrown inside the try of _getMidSpanProposedHeight
Thrown == <<"TypeError">>

\* if (matchingConnection) { ... } return "N/A"; the score of the first wire
\* of the connection calls spidaOwner.toLowerCase(), which throws when the
\* owner of the wire of the design survey is no string
ConnectionValue(matchingConnection, spidaWire, attacherDescription) ==
  IF ~matchingConnection.found THEN NA
  ELSE IF matchingConnection.c.wires # <<>> /\ ~spidaWire.ownerIsString THEN Thrown
  ELSE BestMatchValue(matchingConnection.c.wires,
                      WireMatches(matchingConnection.c.wires, spidaWire,
                                  attacherDescription))

\* the steps of _getMidSpanProposedHeight on the processed connections
MidSpanOfConnections(connections, fromPoleId, toPoleId, attacherDescription, spidaWire, isRefConnection) ==
  IF hasUndergroundPath(connections, fromPoleId, toPoleId, isRefConnection) THEN UG
  ELSE ConnectionValue(MatchingConnection(connections, fromPoleId, toPoleId,
                                          attacherDescription, isRefConnection),
                       spidaWire, attacherDescription)

\* catch (error) { return "N/A" }
Caught(result) == IF result = Thrown THEN NA ELSE result

\* the error of the search left to the caller
_getMidSpanProposedHeight_uncaught(katapultDoc, fromPoleId, toPoleId, attacherDescription, spidaWire, isRefConnection) ==
  MidSpanOfConnections(processKatapultData(katapultDoc), fromPoleId, toPoleId,
                       attacherDescription, spidaWire, isRefConnection)

\* _getMidSpanProposedHeight, this.katapultData being loaded
_getMidSpanProposedHeight(katapultDoc, fromPoleId, toPoleId, attacherDescription, spidaWire, isRefConnection) ==
  Caught(MidSpanOfConnections(processKatapultData(katapultDoc), fromPoleId, toPoleId,
                              attacherDescription, spidaWire, isRefConnection))

(***************************************************************************)
(* Design survey (SPIDA) locations                                         *)
(*                                                                         *)
(* A location is null or has a label and designs.  A label is a string, a  *)
(* number (a non-string on which .match is not a function) or missing.     *)
(* A design has a name, wires and wireEndPoints; a wire end point has a    *)
(* type, a direction in degrees, a structureLabel and the ids of its wires. *)
(***************************************************************************)
StrLabel(x) == [kind |-> "str", s |-> x]
NumLabel(x) == [kind |-> "num", s |-> x]
NoLabel == [kind |-> "missing", s |-> Empty]

W_undefined == <<"u","n","d","e","f","i","n","e","d">>

\* `${poleLocationData?.label}` in a message
LabelText(loc) ==
  IF loc.isNull \/ loc.label.kind = "missing" THEN W_undefined ELSE loc.label.s

\* _canonicalizePoleID(poleLocationData.label) throws a TypeError when the
\* location is null or the label is a non-empty value that is not a string
CanonicalizeThrows(loc) == loc.isNull \/ loc.label.kind = "num"

LabelId(loc) ==
  IF loc.label.kind = "missing" THEN Unknown ELSE _canonicalizePoleID(loc.label.s)

\* the designs taken by their position only
_findDesignIndices_positional(loc) ==
  LET ds == loc.designs.list
  IN IF ~loc.designs.present \/ ds = <<>>
       THEN [found |-> FALSE, measured |-> 0, recommended |-> 0]
     ELSE [found |-> TRUE, measured |-> 1,
           recommended |-> IF Len(ds) > 1 THEN 2 ELSE 1]

\* _findDesignIndices: the last design of each name, then the positional
\* fallbacks; found = FALSE stands for null.  Indices count from 1.
_findDesignIndices(loc) ==
  LET ds == loc.designs.list
      named(w) == {i \in DOMAIN ds : Includes(ds[i].name, w)}
      last(S) == IF S = {} THEN 0 ELSE CHOOSE i \in S : \A j \in S : j <= i
      m0 == last(named(W_MeasuredDesign))
      r0 == last(named(W_RecommendedDesign))
      measuredIdx == IF m0 = 0 /\ Len(ds) > 0 THEN 1 ELSE m0
      recommendedIdx ==
        IF r0 = 0 /\ Len(ds) > 1 THEN 2
        ELSE IF r0 = 0 /\ measuredIdx = 1 THEN 1
        ELSE r0
  IN IF ~loc.designs.present THEN [found |-> FALSE, measured |-> 0, recommended |-> 0]
     ELSE IF measuredIdx = 0 \/ recommendedIdx = 0
       THEN [found |-> FALSE, measured |-> 0, recommended |-> 0]
     ELSE [found |-> TRUE, measured |-> measuredIdx, recommended |-> recommendedIdx]

\* _createWireMap restricted to wires: the wires with an id, a later wire
\* replacing an earlier one with the same id at the earlier one's place
RECURSIVE _createWireMap(_)
_createWireMap(wires) ==
  IF wires = <<>> THEN <<>>
  ELSE LET front == _createWireMap(SubSeq(wires, 1, Len(wires) - 1))
           w == wires[Len(wires)]
           same == {i \in DOMAIN front : front[i].id = w.id}
       IN IF w.id = "" THEN front
          ELSE IF same = {} THEN Append(front, w)
          ELSE [i \in DOMAIN front |-> IF i \in same THEN w ELSE front[i]]

NoWire == [found |-> FALSE, w |-> <<>>]
SomeWire(w) == [found |-> TRUE, w |-> w]

WireById(wireMap, id) ==
  LET hits == {i \in DOMAIN wireMap : wireMap[i].id = id}
  IN IF hits = {} THEN NoWire ELSE SomeWire(wireMap[CHOOSE i \in hits : TRUE])

\* _findMatchingWire: by id, else the first measured wire with the same
\* type, owner and size
_findMatchingWire(recommendedWire, measuredWireMap) ==
  LET same(w) == /\ w.type = recommendedWire.type
                 /\ w.owner = recommendedWire.owner
                 /\ w.size = recommendedWire.size
      k == FirstIndex(measuredWireMap, same)
  IN IF recommendedWire.id # "" /\ WireById(measuredWireMap, recommendedWire.id).found
       THEN WireById(measuredWireMap, recommendedWire.id)
     ELSE IF recommendedWire.type = Empty /\ recommendedWire.owner = Empty
             /\ recommendedWire.size = Empty
       THEN NoWire
     ELSE IF k = 0 THEN NoWire ELSE SomeWire(measuredWireMap[k])

Directions == << <<"N">>, <<"N","E">>, <<"E">>, <<"S","E">>, <<"S">>,
                 <<"S","W">>, <<"W">>, <<"N","W">> >>

\* the compass point taken by rounding down
_getDirection_floor(degrees) ==
  Directions[(((degrees % 360) \div 45) % 8) + 1]

\* _getDirection for whole non-negative degrees: Math.round(x / 45) % 8
_getDirection(degrees) ==
  Directions[((((degrees % 360) * 2 + 45) \div 90) % 8) + 1]

W_Ref == <<"R","e","f">>

\* _generateSpanHeader
_generateSpanHeader(wireEndPoint) ==
  LET direction == IF wireEndPoint.direction.present
                     THEN _getDirection(wireEndPoint.direction.v) ELSE Empty
      structureLabel == wireEndPoint.structureLabel
  IN IF wireEndPoint.type = "PREVIOUS_POLE" THEN W_Backspan
     ELSE IF direction # Empty /\ structureLabel # Empty
       THEN W_Ref \o <<" ","(">> \o direction \o <<")"," ","t","o"," ">> \o structureLabel
     ELSE IF direction # Empty THEN W_Ref \o <<" ","(">> \o direction \o <<")">>
     ELSE IF structureLabel # Empty THEN W_Ref \o <<" ","t","o"," ">> \o structureLabel
     ELSE W_Ref

\* _isRefConnection
_isRefConnection(wireEndPoint) ==
  wireEndPoint.type # "NEXT_POLE" /\ wireEndPoint.type # "PREVIOUS_POLE"

\* the proposed height of _extractSpanData: blank when attachmentHeight.value
\* is falsy, that is missing or 0
ProposedHeightOf(recommendedWire) ==
  IF recommendedWire.attachmentHeight.present /\ recommendedWire.attachmentHeight.v # 0
    THEN _metersToFeetInches(recommendedWire.attachmentHeight)
  ELSE Empty

\* the existing height of _extractSpanData
ExistingHeightOf(measuredWire) ==
  IF measuredWire.found THEN _metersToFeetInches(measuredWire.w.attachmentHeight)
  ELSE NA

\* the attachments of one wire end point, in the order of its wire ids
AttachmentsOf(katapultDoc, poleId, wireEndPoint, recommendedWireMap, measuredWireMap) ==
  LET ids == wireEndPoint.wires
      att[i \in 0..Len(ids)] ==
        IF i = 0 THEN <<>>
        ELSE LET rec == WireById(recommendedWireMap, ids[i])
                 recommendedWire == rec.w
                 description == _getAttachmentDescription(recommendedWire)
             IN IF ~rec.found THEN att[i - 1]
                ELSE Append(att[i - 1],
                  [description |-> description,
                   existingHeight |->
                     ExistingHeightOf(_findMatchingWire(recommendedWire, measuredWireMap)),
                   proposedHeight |-> ProposedHeightOf(recommendedWire),
                   midSpanProposed |->
                     _getMidSpanProposedHeight(katapultDoc, poleId,
                       wireEndPoint.structureLabel, description, recommendedWire,
                       _isRefConnection(wireEndPoint))])
  IN att[Len(ids)]

\* a span placed before the spans collected so far
WithSpan_front(spans, wireEndPoint, attachments) ==
  IF wireEndPoint.isNull \/ wireEndPoint.wires = <<>> \/ attachments = <<>> THEN spans
  ELSE << [spanHeader |-> _generateSpanHeader(wireEndPoint),
           attachments |-> attachments] >> \o spans

\* spanData.push, skipped for an end point without attachments; an end point
\* that is null, or an error thrown while an attachment is built, makes the
\* body of the loop throw, and the catch inside the loop only logs a warning
WithSpan(spans, wireEndPoint, attachments) ==
  IF wireEndPoint.isNull \/ wireEndPoint.wires = <<>> \/ attachments = <<>> THEN spans
  ELSE IF \E a \in DOMAIN attachments : attachments[a].midSpanProposed = Thrown THEN spans
  ELSE Append(spans, [spanHeader |-> _generateSpanHeader(wireEndPoint),
                      attachments |-> attachments])

\* the loop of _extractSpanData over the wire end points of the recommended
\* design
SpansOf(katapultDoc, poleId, recommendedDesign, measuredWireMap) ==
  LET weps == recommendedDesign.wireEndPoints.list
      recommendedWireMap == _createWireMap(recommendedDesign.wires)
      spans[i \in 0..Len(weps)] ==
        IF i = 0 THEN <<>>
        ELSE WithSpan(spans[i - 1], weps[i],
                      AttachmentsOf(katapultDoc, poleId, weps[i], recommendedWireMap,
                                    measuredWireMap))
  IN IF ~recommendedDesign.wireEndPoints.present THEN <<>>
     ELSE spans[Len(weps)]

\* _extractSpanData
_extractSpanData(katapultDoc, loc, designIndices) ==
  SpansOf(katapultDoc, LabelId(loc), loc.designs.list[designIndices.recommended],
          _createWireMap(loc.designs.list[designIndices.measured].wires))

(***************************************************************************)
(* Lookup maps (JavaScript Map: insertion order, set replaces in place)    *)
(***************************************************************************)
MapSet(map, key, val) ==
  LET same == {i \in DOMAIN map : map[i].key = key}
  IN IF same = {} THEN Append(map, [key |-> key, val |-> val])
     ELSE [i \in DOMAIN map |-> IF i \in same THEN [key |-> key, val |-> val] ELSE map[i]]

NotFound == [found |-> FALSE, val |-> <<>>]

MapGet(map, key) ==
  LET same == {i \in DOMAIN map : map[i].key = key}
  IN IF same = {} THEN NotFound
     ELSE [found |-> TRUE, val |-> map[CHOOSE i \in same : TRUE].val]

\* the first truthy value among the eight spellings of the pole number of a
\* node, Empty when none is set
PoleNumberOf(node) ==
  LET set == {k \in DOMAIN node.poleNumberKeys : node.poleNumberKeys[k] # Empty}
  IN IF set = {} THEN Empty
     ELSE node.poleNumberKeys[CHOOSE k \in set : \A j \in set : k <= j]

\* the loop over the locations in _createPoleLookupMaps; a location whose
\* label cannot be canonicalized is skipped
RECURSIVE SpidaLookup(_)
SpidaLookup(locations) ==
  IF locations = <<>> THEN <<>>
  ELSE LET front == SpidaLookup(SubSeq(locations, 1, Len(locations) - 1))
           loc == locations[Len(locations)]
       IN IF CanonicalizeThrows(loc) THEN front
          ELSE MapSet(front, LabelId(loc), loc)

\* the key of a node keeping the pole number as written
KatapultKey_raw(node) == PoleNumberOf(node)

\* const canonicalId = this._canonicalizePoleID(poleNumber)
KatapultKey(node) == _canonicalizePoleID(PoleNumberOf(node))

\* the loop over the nodes in _createPoleLookupMaps
RECURSIVE KatapultLookup(_)
KatapultLookup(nodes) ==
  IF nodes = <<>> THEN <<>>
  ELSE LET front == KatapultLookup(SubSeq(nodes, 1, Len(nodes) - 1))
           node == nodes[Len(nodes)]
       IN IF PoleNumberOf(node) = Empty THEN front
          ELSE MapSet(front, KatapultKey(node), node)

(***************************************************************************)
(* Pole-level extraction                                                   *)
(***************************************************************************)
W_telephone == <<"t","e","l","e","p","h","o","n","e">>
W_catv == <<"c","a","t","v">>
W_power == <<"p","o","w","e","r">>
W_secondary == <<"s","e","c","o","n","d","a","r","y">>
W_electrical == <<"e","l","e","c","t","r","i","c","a","l">>

\* the category of a field-survey wire (WireCategory)
WireCategoryOf(wire) ==
  LET text == ToLowerCase(wire.company \o Blank \o wire.cableType)
  IN IF \E w \in {W_fiber, W_telephone, W_catv} : Includes(text, w)
       THEN "COMMUNICATION"
     ELSE IF \E w \in {W_power, W_primary, W_neutral, W_secondary, W_electrical} :
               Includes(text, w)
       THEN "CPS_ELECTRICAL"
     ELSE "OTHER"

IsAerialType(buttonType) ==
  buttonType = W_aerial_path \/ Includes(buttonType, W_aerial)

\* the lowest heights taken from the first aerial connection of the node only
_extractExistingMidspanData_onespan(katapultDoc, katapultPoleData) ==
  LET connections == processKatapultData(katapultDoc)
      katapultNodeId == katapultPoleData.val.id
      aerial == {c \in DOMAIN connections :
                   /\ \/ connections[c].fromPoleId = katapultNodeId
                      \/ connections[c].toPoleId = katapultNodeId
                   /\ IsAerialType(connections[c].buttonType)}
      lows(cat) ==
        UNION { { connections[i].wires[k].lowestExistingMidspanHeight.v :
                    k \in {w \in DOMAIN connections[i].wires :
                             /\ ~connections[i].wires[w].lowestExistingMidspanHeight.null
                             /\ WireCategoryOf(connections[i].wires[w]) = cat} } :
                i \in {c \in aerial : \A d \in aerial : c <= d} }
      lowest(cat) == IF lows(cat) = {} THEN NA
                     ELSE formatHeightToString(SomeHeight(MinOf(lows(cat))))
  IN IF ~katapultPoleData.found THEN [com |-> NA, electrical |-> NA]
     ELSE [com |-> lowest("COMMUNICATION"), electrical |-> lowest("CPS_ELECTRICAL")]

\* _extractExistingMidspanData: field data only, "N/A" without a matched node
_extractExistingMidspanData(katapultDoc, katapultPoleData) ==
  LET connections == processKatapultData(katapultDoc)
      katapultNodeId == katapultPoleData.val.id
      lows(cat) ==
        UNION { { connections[i].wires[k].lowestExistingMidspanHeight.v :
                    k \in {w \in DOMAIN connections[i].wires :
                             /\ ~connections[i].wires[w].lowestExistingMidspanHeight.null
                             /\ WireCategoryOf(connections[i].wires[w]) = cat} } :
                i \in {c \in DOMAIN connections :
                         /\ \/ connections[c].fromPoleId = katapultNodeId
                            \/ connections[c].toPoleId = katapultNodeId
                         /\ IsAerialType(connections[c].buttonType)} }
      lowest(cat) == IF lows(cat) = {} THEN NA
                     ELSE formatHeightToString(SomeHeight(MinOf(lows(cat))))
  IN IF ~katapultPoleData.found THEN [com |-> NA, electrical |-> NA]
     ELSE [com |-> lowest("COMMUNICATION"), electrical |-> lowest("CPS_ELECTRICAL")]

\* the other end of the first aerial connection that starts at the node,
\* else of the first aerial connection
OtherEnd(aerialConnections, katapultNodeId, firstFrom) ==
  IF firstFrom # 0 THEN aerialConnections[firstFrom].toPoleId
  ELSE IF aerialConnections[1].fromPoleId = katapultNodeId
    THEN aerialConnections[1].toPoleId
  ELSE aerialConnections[1].fromPoleId

\* the key under which the lookup map holds the given entry, "N/A" for none
KeyAt(lookupMap, i) == IF i = 0 THEN NA ELSE lookupMap[i].key

\* the pole at the other end of an aerial connection of the matched node
ToPoleFromConnections(aerialConnections, lookupMap, katapultNodeId) ==
  LET asFrom(c) == c.fromPoleId = katapultNodeId
      hasId(e) == e.val.id = OtherEnd(aerialConnections, katapultNodeId,
                                      FirstIndex(aerialConnections, asFrom))
  IN IF aerialConnections = <<>> THEN NA
     ELSE KeyAt(lookupMap, FirstIndex(lookupMap, hasId))

ToPoleFromKatapult(katapultDoc, lookupMap, katapultPoleData) ==
  LET aerial(c) == /\ \/ c.fromPoleId = katapultPoleData.val.id
                      \/ c.toPoleId = katapultPoleData.val.id
                   /\ IsAerialType(c.buttonType)
  IN IF ~katapultPoleData.found THEN NA
     ELSE ToPoleFromConnections(Filter(processKatapultData(katapultDoc), aerial),
                                lookupMap, katapultPoleData.val.id)

\* the structureLabel of the end point at index i
LabelAt(weps, i) == weps[i].structureLabel

\* the to pole: the next pole of the design, then any pole that is not the
\* previous one, then the field survey, then any labelled end point. The
\* first find throws at an end point that is null unless it has found a next
\* pole before it, and the catch of _extractFromToPoles returns "N/A"
ToPoleOf(weps, fromKatapult) ==
  LET isNext(w) == ~w.isNull /\ w.type = "NEXT_POLE" /\ w.structureLabel # Empty
      nonPrev(w) == w.type # "PREVIOUS_POLE" /\ w.structureLabel # Empty
      labelled(w) == w.structureLabel # Empty
      isNull(w) == w.isNull
  IN IF FirstIndex(weps, isNext) # 0
          /\ (FirstIndex(weps, isNull) = 0
                \/ FirstIndex(weps, isNext) < FirstIndex(weps, isNull))
       THEN LabelAt(weps, FirstIndex(weps, isNext))
     ELSE IF FirstIndex(weps, isNull) # 0 THEN NA
     ELSE IF FirstIndex(weps, nonPrev) # 0 THEN LabelAt(weps, FirstIndex(weps, nonPrev))
     ELSE IF fromKatapult # NA THEN fromKatapult
     ELSE IF FirstIndex(weps, labelled) # 0
       THEN LabelAt(weps, FirstIndex(weps, labelled))
     ELSE NA

FromToOf(katapultDoc, lookupMap, loc, katapultPoleData, designIndices) ==
  IF ~designIndices.found
       \/ ~loc.designs.list[designIndices.recommended].wireEndPoints.present
    THEN [from |-> LabelId(loc), to |-> NA]
  ELSE [from |-> LabelId(loc),
        to |-> ToPoleOf(loc.designs.list[designIndices.recommended].wireEndPoints.list,
                        ToPoleFromKatapult(katapultDoc, lookupMap, katapultPoleData))]

\* _extractFromToPoles
_extractFromToPoles(katapultDoc, lookupMap, loc, katapultPoleData) ==
  FromToOf(katapultDoc, lookupMap, loc, katapultPoleData, _findDesignIndices(loc))

\* _determineAttachmentAction (wires only)
_determineAttachmentAction(loc) ==
  LET designIndices == _findDesignIndices(loc)
      measuredCount == Len(loc.designs.list[designIndices.measured].wires)
      recommendedCount == Len(loc.designs.list[designIndices.recommended].wires)
  IN IF ~designIndices.found THEN "( E )xisting"
     ELSE IF recommendedCount > measuredCount THEN "( I )nstalling"
     ELSE IF recommendedCount < measuredCount THEN "( R )emoving"
     ELSE "( E )xisting"

\* _extractPoleOwner and _extractConstructionGrade return constants
_extractPoleOwner == W_CPS
_extractConstructionGrade == <<"G","r","a","d","e"," ","C">>

\* an extraction that fails for a pole without spans
PoleDataOf_nospans(katapultDoc, loc, counter, designIndices, midspanHeights, fromToPoles) ==
  IF ~designIndices.found
       \/ _extractSpanData(katapultDoc, loc, designIndices) = <<>>
    THEN [ok |-> FALSE, poleData |-> <<>>]
  ELSE [ok |-> TRUE,
        poleData |->
          [operationNumber |-> counter,
           attachmentAction |-> _determineAttachmentAction(loc),
           poleOwner |-> _extractPoleOwner,
           poleNumber |-> LabelId(loc),
           constructionGrade |-> _extractConstructionGrade,
           heightLowestCom |-> midspanHeights.com,
           heightLowestCpsElectrical |-> midspanHeights.electrical,
           spans |-> _extractSpanData(katapultDoc, loc, designIndices),
           fromPole |-> fromToPoles.from,
           toPole |-> fromToPoles.to]]

\* _extractPoleData: ok = FALSE stands for the caught error and the null
\* result; the record is the PoleData built with the given operation number
PoleDataOf(katapultDoc, loc, counter, designIndices, midspanHeights, fromToPoles) ==
  IF ~designIndices.found THEN [ok |-> FALSE, poleData |-> <<>>]
  ELSE [ok |-> TRUE,
        poleData |->
          [operationNumber |-> counter,
           attachmentAction |-> _determineAttachmentAction(loc),
           poleOwner |-> _extractPoleOwner,
           poleNumber |-> LabelId(loc),
           constructionGrade |-> _extractConstructionGrade,
           heightLowestCom |-> midspanHeights.com,
           heightLowestCpsElectrical |-> midspanHeights.electrical,
           spans |-> _extractSpanData(katapultDoc, loc, designIndices),
           fromPole |-> fromToPoles.from,
           toPole |-> fromToPoles.to]]

_extractPoleData(katapultDoc, lookupMap, loc, katapultPoleData, counter) ==
  PoleDataOf(katapultDoc, loc, counter, _findDesignIndices(loc),
             _extractExistingMidspanData(katapultDoc, katapultPoleData),
             _extractFromToPoles(katapultDoc, lookupMap, loc, katapultPoleData))

(***************************************************************************)
(* PoleDataProcessor: construction, loading and processData                *)
(***************************************************************************)
NotLoaded == [loaded |-> FALSE]

\* the state after new PoleDataProcessor()
ProcConstructed ==
  /\ spidaData = NotLoaded
  /\ katapultData = NotLoaded
  /\ processedPoles = <<>>
  /\ errors = <<>>
  /\ poleLookupMap = <<>>
  /\ katapultPoleLookupMap = <<>>
  /\ operationCounter = 1
  /\ pc = "idle"
  /\ idx = 0
  /\ ret = "none"
  /\ visited = <<>>
  /\ loads = 0

Error(code, label) == [code |-> code, label |-> label]

\* loadSpidaData: a text that does not parse leaves spidaData as it was and
\* records a PARSE_ERROR
LoadSpidaData(text) ==
  /\ pc = "idle"
  /\ loads < MaxLoads
  /\ loads' = loads + 1
  /\ IF text.malformed
       THEN /\ errors' = Append(errors, Error("PARSE_ERROR", <<"S","P","I","D","A">>))
            /\ UNCHANGED spidaData
       ELSE /\ spidaData' = [loaded |-> TRUE, hasLocations |-> text.hasLocations,
                             isArray |-> text.isArray, locations |-> text.locations]
            /\ UNCHANGED errors
  /\ UNCHANGED <<katapultData, processedPoles, poleLookupMap, katapultPoleLookupMap,
                 operationCounter, pc, idx, ret, visited>>
  /\ UNCHANGED <<norm, hgt, mid, dsg, hdr, xls, firstRun>>

\* loadKatapultData
LoadKatapultData(text) ==
  /\ pc = "idle"
  /\ loads < MaxLoads
  /\ loads' = loads + 1
  /\ IF text.malformed
       THEN /\ errors' = Append(errors,
                           Error("PARSE_ERROR", <<"K","a","t","a","p","u","l","t">>))
            /\ UNCHANGED katapultData
       ELSE /\ katapultData' = [loaded |-> TRUE, nodes |-> text.nodes,
                                connections |-> text.connections,
                                traces |-> text.traces]
            /\ UNCHANGED errors
  /\ UNCHANGED <<spidaData, processedPoles, poleLookupMap, katapultPoleLookupMap,
                 operationCounter, pc, idx, ret, visited>>
  /\ UNCHANGED <<norm, hgt, mid, dsg, hdr, xls, firstRun>>

\* isDataLoaded
isDataLoaded == spidaData.loaded /\ katapultData.loaded

\* a processData that does not clear the records of the call before
ProcessDataStart_keeping ==
  /\ IF ~isDataLoaded
       THEN /\ errors' = Append(errors, Error("NO_DATA", Empty))
            /\ ret' = "false"
            /\ pc' = "done"
            /\ UNCHANGED <<processedPoles, poleLookupMap, katapultPoleLookupMap,
                           operationCounter, idx, visited>>
       ELSE /\ processedPoles' = processedPoles
            /\ operationCounter' = 1
            /\ visited' = <<>>
            /\ IF spidaData.hasLocations /\ ~spidaData.isArray
                 THEN /\ poleLookupMap' = <<>>
                      /\ katapultPoleLookupMap' = <<>>
                      /\ errors' = << Error("PROCESSING_ERROR", Empty) >>
                      /\ pc' = "done"
                      /\ ret' = "false"
                      /\ UNCHANGED idx
                 ELSE IF spidaData.hasLocations
                 THEN /\ poleLookupMap' = SpidaLookup(spidaData.locations)
                      /\ katapultPoleLookupMap' = KatapultLookup(katapultData.nodes)
                      /\ errors' = <<>>
                      /\ pc' = "loop"
                      /\ idx' = 1
                      /\ ret' = "none"
                 ELSE /\ poleLookupMap' = <<>>
                      /\ katapultPoleLookupMap' = KatapultLookup(katapultData.nodes)
                      /\ errors' = << Error("INVALID_STRUCTURE", Empty) >>
                      /\ pc' = "done"
                      /\ ret' = "false"
                      /\ UNCHANGED idx
  /\ UNCHANGED <<spidaData, katapultData, loads>>

\* processData up to the loop over the locations: the NO_DATA return, the
\* clearing of the previous results, _createPoleLookupMaps and the
\* INVALID_STRUCTURE return. hasLocations is the truthiness of
\* leads[0].locations; when the value is truthy and is no array, the for-of
\* of _createPoleLookupMaps throws before the field nodes are read and the
\* outer catch records a PROCESSING_ERROR
ProcessDataStart ==
  /\ IF ~isDataLoaded
       THEN /\ errors' = Append(errors, Error("NO_DATA", Empty))
            /\ ret' = "false"
            /\ pc' = "done"
            /\ UNCHANGED <<processedPoles, poleLookupMap, katapultPoleLookupMap,
                           operationCounter, idx, visited>>
       ELSE /\ processedPoles' = <<>>
            /\ operationCounter' = 1
            /\ visited' = <<>>
            /\ IF spidaData.hasLocations /\ ~spidaData.isArray
                 THEN /\ poleLookupMap' = <<>>
                      /\ katapultPoleLookupMap' = <<>>
                      /\ errors' = << Error("PROCESSING_ERROR", Empty) >>
                      /\ pc' = "done"
                      /\ ret' = "false"
                      /\ UNCHANGED idx
                 ELSE IF spidaData.hasLocations
                 THEN /\ poleLookupMap' = SpidaLookup(spidaData.locations)
                      /\ katapultPoleLookupMap' = KatapultLookup(katapultData.nodes)
                      /\ errors' = <<>>
                      /\ pc' = "loop"
                      /\ idx' = 1
                      /\ ret' = "none"
                 ELSE /\ poleLookupMap' = <<>>
                      /\ katapultPoleLookupMap' = KatapultLookup(katapultData.nodes)
                      /\ errors' = << Error("INVALID_STRUCTURE", Empty) >>
                      /\ pc' = "done"
                      /\ ret' = "false"
                      /\ UNCHANGED idx
  /\ UNCHANGED <<spidaData, katapultData, loads>>

\* the first call of processData
ProcessDataBegin ==
  /\ pc = "idle"
  /\ ProcessDataStart
  /\ UNCHANGED <<norm, hgt, mid, dsg, hdr, xls, firstRun>>

\* no second call has been made
NoRun == [pc |-> "none"]

\* a second call of processData on the same object, made when the first has
\* returned; firstRun is what the first call left in the object
ProcessDataAgain ==
  /\ pc = "done"
  /\ xls.pc = "none"
  /\ firstRun.pc = "none"
  /\ firstRun' = [pc |-> "kept", processedPoles |-> processedPoles, errors |-> errors,
                  ret |-> ret, poleLookupMap |-> poleLookupMap,
                  katapultPoleLookupMap |-> katapultPoleLookupMap,
                  operationCounter |-> operationCounter]
  /\ ProcessDataStart
  /\ UNCHANGED <<norm, hgt, mid, dsg, hdr, xls>>

\* the outcome of an iteration in which _canonicalizePoleID has returned
ExtractedOutcome(loc, katapultPoleData, extracted) ==
  IF ~extracted.ok
    THEN [kind |-> "null", katapultPoleData |-> katapultPoleData, poleData |-> <<>>,
          error |-> Error("DATA_EXTRACTION_ERROR",
                          IF loc.label.kind = "missing" \/ loc.label.s = Empty
                            THEN ToLowerCase(Unknown) ELSE loc.label.s)]
  ELSE [kind |-> "record", katapultPoleData |-> katapultPoleData,
        poleData |-> extracted.poleData, error |-> <<>>]

\* the lookup of the field node and the extraction
LookedUpOutcome(loc, katapultPoleData) ==
  ExtractedOutcome(loc, katapultPoleData,
                   _extractPoleData(katapultData, katapultPoleLookupMap, loc,
                                    katapultPoleData, operationCounter))

\* the outcome of one iteration of the loop over the locations
LocationOutcome(loc) ==
  IF CanonicalizeThrows(loc)
    THEN [kind |-> "thrown", katapultPoleData |-> NotFound, poleData |-> <<>>,
          error |-> Error("POLE_PROCESSING_ERROR", LabelText(loc))]
  ELSE LookedUpOutcome(loc, MapGet(katapultPoleLookupMap, LabelId(loc)))

\* an iteration that takes an operation number whatever its outcome
Recorded_counted(out) ==
  /\ processedPoles' = IF out.kind = "record" THEN Append(processedPoles, out.poleData)
                       ELSE processedPoles
  /\ operationCounter' = operationCounter + 1
  /\ errors' = IF out.kind = "record" THEN errors ELSE Append(errors, out.error)
  /\ visited' = Append(visited, [kind |-> out.kind,
                                 katapultPoleData |-> out.katapultPoleData])

\* what an iteration with the given outcome leaves in the results
Recorded(out) ==
  /\ processedPoles' = IF out.kind = "record" THEN Append(processedPoles, out.poleData)
                       ELSE processedPoles
  /\ operationCounter' = IF out.kind = "record" THEN operationCounter + 1
                         ELSE operationCounter
  /\ errors' = IF out.kind = "record" THEN errors ELSE Append(errors, out.error)
  /\ visited' = Append(visited, [kind |-> out.kind,
                                 katapultPoleData |-> out.katapultPoleData])

\* what an iteration leaves when a failure ends the loop
RecordedOrAborted(out) ==
  /\ Recorded(out)
  /\ pc' = IF out.kind = "record" THEN pc ELSE "done"
  /\ ret' = IF out.kind = "record" THEN ret ELSE "false"

\* an iteration whose failure ends the loop
ProcessLocation_abort ==
  /\ pc = "loop"
  /\ idx <= Len(spidaData.locations)
  /\ RecordedOrAborted(LocationOutcome(spidaData.locations[idx]))
  /\ idx' = idx + 1
  /\ UNCHANGED <<spidaData, katapultData, poleLookupMap, katapultPoleLookupMap, loads>>
  /\ UNCHANGED <<norm, hgt, mid, dsg, hdr, xls, firstRun>>

\* one iteration of the loop over the locations, its try and catch included
ProcessLocation ==
  /\ pc = "loop"
  /\ idx <= Len(spidaData.locations)
  /\ Recorded(LocationOutcome(spidaData.locations[idx]))
  /\ idx' = idx + 1
  /\ UNCHANGED <<spidaData, katapultData, poleLookupMap, katapultPoleLookupMap,
                 pc, ret, loads>>
  /\ UNCHANGED <<norm, hgt, mid, dsg, hdr, xls, firstRun>>

\* the end of the loop: return this.processedPoles.length > 0
ProcessDataEnd ==
  /\ pc = "loop"
  /\ idx > Len(spidaData.locations)
  /\ ret' = IF Len(processedPoles) > 0 THEN "true" ELSE "false"
  /\ pc' = "done"
  /\ UNCHANGED <<spidaData, katapultData, processedPoles, errors, poleLookupMap,
                 katapultPoleLookupMap, operationCounter, idx, visited, loads>>
  /\ UNCHANGED <<norm, hgt, mid, dsg, hdr, xls, firstRun>>

(***************************************************************************)
(* generateExcel                                                           *)
(*                                                                         *)
(* The worksheet is the sequence of the cells written, in the order of the *)
(* writes; a cell has the number of the pole it was written for, what it   *)
(* holds, its column, its row and its value.  The value of a cell of the   *)
(* sheet is that of the last write to it.  Of the columns A to I only D    *)
(* (the pole number) is kept, and of L to O only L.                        *)
(***************************************************************************)
\* the concatenation of the sequences of a sequence, and its length
RECURSIVE Flatten(_)
Flatten(seqs) == IF seqs = <<>> THEN <<>> ELSE Head(seqs) \o Flatten(Tail(seqs))
RECURSIVE SumLen(_)
SumLen(seqs) == IF seqs = <<>> THEN 0 ELSE Len(Head(seqs)) + SumLen(Tail(seqs))

W_FromPole == <<"F","r","o","m"," ","p","o","l","e">>
W_ToPole == <<"T","o"," ","p","o","l","e">>

\* let currentRow = 4
FirstDataRow == 4

Cell(p, what, col, row, v) == [pole |-> p, what |-> what, col |-> col, row |-> row, v |-> v]

\* _calculateEndRow
_calculateEndRow(pole) ==
  LET totalRows == SumLen([k \in DOMAIN pole.spans |-> <<0>> \o pole.spans[k].attachments])
                     + 2
  IN IF totalRows < 3 THEN 3 ELSE totalRows

\* _writePoleData: the row of the columns A to K, the two lowest heights,
\* the From/To headers and the From/To values
_writePoleData(ws, p, pole, row, totalRows) ==
  ws \o << Cell(p, "data", "D", row, pole.poleNumber),
           Cell(p, "data", "J", row, Empty),
           Cell(p, "data", "K", row, Empty),
           Cell(p, "heights", "J", row, pole.heightLowestCom),
           Cell(p, "heights", "K", row, pole.heightLowestCpsElectrical),
           Cell(p, "fromToHeader", "J", row + totalRows - 2, W_FromPole),
           Cell(p, "fromToHeader", "K", row + totalRows - 2, W_ToPole),
           Cell(p, "fromToValue", "J", row + totalRows - 1, pole.fromPole),
           Cell(p, "fromToValue", "K", row + totalRows - 1, pole.toPole) >>

\* the rows of column L of _writeAttachmentData: per span its header and its
\* attachments, or one blank row when there is no span
AttachmentRows(pole) ==
  IF pole.spans = <<>> THEN << Empty >>
  ELSE Flatten([k \in DOMAIN pole.spans |->
                  << pole.spans[k].spanHeader >> \o
                  [a \in DOMAIN pole.spans[k].attachments |->
                     pole.spans[k].attachments[a].description]])

\* _writeAttachmentData: the rows written from startRow on, then blank rows
\* up to the From/To header row; currentRow is the value returned
_writeAttachmentData(ws, p, pole, startRow, totalRows) ==
  LET rows == AttachmentRows(pole)
      expectedEndRow == startRow + totalRows - 2
      blanks == IF startRow + Len(rows) < expectedEndRow
                  THEN expectedEndRow - (startRow + Len(rows)) ELSE 0
  IN [ws |-> ws \o [k \in DOMAIN rows |->
                       Cell(p, "attachment", "L", startRow + k - 1, rows[k])]
                \o [k \in 1..blanks |->
                       Cell(p, "blank", "L", startRow + Len(rows) + k - 1, Empty)],
      currentRow |-> startRow + Len(rows) + blanks]

\* the body of the loop of generateExcel over the poles, and the loop
WritePole(ws, p, pole, firstRowOfPole, endRowsBeforeFromTo) ==
  _writeAttachmentData(_writePoleData(ws, p, pole, firstRowOfPole, endRowsBeforeFromTo),
                       p, pole, firstRowOfPole, endRowsBeforeFromTo)

RECURSIVE WritePoles(_, _)
WritePoles(poles, n) ==
  IF n = 0 THEN [ws |-> <<>>, currentRow |-> FirstDataRow - 1]
  ELSE WritePole(WritePoles(poles, n - 1).ws, n, poles[n],
                 WritePoles(poles, n - 1).currentRow + 1, _calculateEndRow(poles[n]))

\* no workbook has been generated
XlsNone == [pc |-> "none", ws |-> <<>>]

\* generateExcel, called after processData has returned
GenerateExcel ==
  /\ pc = "done"
  /\ xls.pc = "none"
  /\ IF processedPoles = <<>>
       THEN /\ errors' = Append(errors, Error("NO_PROCESSED_DATA", Empty))
            /\ xls' = [pc |-> "null", ws |-> <<>>]
       ELSE /\ xls' = [pc |-> "blob",
                       ws |-> WritePoles(processedPoles, Len(processedPoles)).ws]
            /\ UNCHANGED errors
  /\ UNCHANGED <<spidaData, katapultData, processedPoles, poleLookupMap,
                 katapultPoleLookupMap, operationCounter, pc, idx, ret, visited, loads>>
  /\ UNCHANGED <<norm, hgt, mid, dsg, hdr, firstRun>>

\* constructors of the parts of the two documents
\* ownerIsString tells whether owner.id is a string; a number has no
\* toLowerCase
SpidaWire(id, owner, description, height) ==
  [id |-> id, owner |-> owner, ownerIsString |-> TRUE, description |-> description,
   type |-> Empty, size |-> Empty, attachmentHeight |-> height]
Obs(t, h, move) ==
  [trace_id |-> t, height |-> h, mr_move |-> move, effective_moves |-> FALSE]
Conn(a, b, bt, obs) ==
  [node_id_1 |-> a, node_id_2 |-> b, button_type |-> bt, obs |-> obs]
Trace(company, cable) == [company |-> company, cable_type |-> cable]

RECURSIVE StringsUpTo(_, _)
StringsUpTo(alphabet, n) ==
  IF n = 0 THEN { <<>> }
  ELSE LET shorter == StringsUpTo(alphabet, n - 1)
       IN shorter \cup {Append(x, c) : x \in shorter, c \in alphabet}

(***************************************************************************)
(* Documents of the processor specification                                *)
(***************************************************************************)
W_PL == <<"P","L">>
\* the label of the i-th location of a document: PL100, PL101, ...
PoleLabel(i) ==
  W_PL \o <<"1">> \o (IF i - 1 < 10 THEN <<"0">> ELSE <<>>) \o NumToStr(i - 1)

\* poleOwner is structure.pole.owner, empty when the design has none
Design(name, wires, weps) ==
  [name |-> name, wires |-> wires, wireEndPoints |-> [present |-> TRUE, list |-> weps],
   poleOwner |-> Empty]

WireEndPoint(type, direction, structureLabel, wires) ==
  [isNull |-> FALSE, type |-> type, direction |-> direction,
   structureLabel |-> structureLabel, wires |-> wires]

\* a null among the wire end points of a design
NullWireEndPoint ==
  [isNull |-> TRUE, type |-> "", direction |-> NoValue, structureLabel |-> Empty,
   wires |-> <<>>]

Location(label, designs) ==
  [isNull |-> FALSE, label |-> label, designs |-> [present |-> TRUE, list |-> designs]]

NullLocation == [isNull |-> TRUE, label |-> NoLabel,
                 designs |-> [present |-> FALSE, list |-> <<>>]]

\* a location with a measured and a recommended design, one wire at the
\* given heights and one wire end point
TwoDesigns(label, existing, proposed, wep) ==
  Location(label,
    << Design(W_MeasuredDesign, << SpidaWire("w1", W_CPS, W_Primary, existing) >>, <<>>),
       Design(W_RecommendedDesign, << SpidaWire("w1", W_CPS, W_Primary, proposed) >>,
              << wep >>) >>)

LocationKinds == {"std", "null", "numlabel", "nodesigns", "prefixed", "unmoved",
                  "ground", "nospans", "nullspan", "multi", "lowercase"}
ErrorKinds == {"std", "null", "numlabel", "nodesigns"}

\* the location of the given kind at position i of a document
LocationOf(kind, i) ==
  LET next == IF i % 2 = 1
                THEN WireEndPoint("NEXT_POLE", Value(90), PoleLabel(i + 1), <<"w1">>)
              ELSE WireEndPoint("PREVIOUS_POLE", NoValue, PoleLabel(i - 1), <<"w1">>)
      std == [TwoDesigns(StrLabel(PoleLabel(i)), Value(840), Value(864), next)
                EXCEPT !.designs.list[1].poleOwner = W_CPS]
  IN CASE kind = "std" -> std
       [] kind = "null" -> NullLocation
       [] kind = "numlabel" -> [std EXCEPT !.label = NumLabel(NumToStr(i))]
       [] kind = "nodesigns" ->
            [std EXCEPT !.designs = [present |-> FALSE, list |-> <<>>]]
       [] kind = "prefixed" ->
            \* the label of the location before it, with a prefix
            [std EXCEPT !.label =
               StrLabel(<<"1","-">> \o PoleLabel(IF i > 1 THEN i - 1 ELSE i))]
       [] kind = "unmoved" ->
            TwoDesigns(StrLabel(PoleLabel(i)), Value(840), Value(840),
                       WireEndPoint("OTHER_POLE", Value(45), Empty, <<"w1">>))
       [] kind = "ground" ->
            TwoDesigns(StrLabel(PoleLabel(i)), Value(0), Value(0), next)
       [] kind = "nullspan" ->
            \* a null before the wire end point
            [std EXCEPT !.designs.list[2].wireEndPoints.list = << NullWireEndPoint, next >>]
       [] kind = "lowercase" ->
            \* the label in lower-case letters: pl100
            [std EXCEPT !.label = StrLabel(ToLowerCase(PoleLabel(i)))]
       [] kind = "multi" ->
            \* three wires, of which one has a number as owner, and four wire
            \* end points: a back span with two wires and an id of no wire,
            \* an end point without wires, the span to the next pole with
            \* two wires and a reference span
            Location(StrLabel(PoleLabel(i)),
              << Design(W_MeasuredDesign,
                        << SpidaWire("w1", W_CPS, W_Primary, Value(840)),
                           SpidaWire("w2", W_ATandT, W_Fiber, Value(600)) >>, <<>>),
                 Design(W_RecommendedDesign,
                        << SpidaWire("w1", W_CPS, W_Primary, Value(864)),
                           SpidaWire("w2", W_ATandT, W_Fiber, Value(624)),
                           [SpidaWire("w3", <<"7">>, W_Coax, Value(700))
                              EXCEPT !.ownerIsString = FALSE] >>,
                        << WireEndPoint("PREVIOUS_POLE", NoValue, PoleLabel(i + 2),
                                        <<"w2", "w9", "w1">>),
                           WireEndPoint("OTHER_POLE", Value(180), Empty, <<>>),
                           WireEndPoint("NEXT_POLE", Value(90), PoleLabel(i + 1),
                                        <<"w3", "w1">>),
                           WireEndPoint("OTHER_POLE", NoValue, Empty, <<"w2">>) >>) >>)
       [] kind = "nospans" ->
            \* no wire end point: an empty list, or no wireEndPoints at all
            [std EXCEPT !.designs.list[2].wireEndPoints =
                          IF i % 2 = 1 THEN [present |-> TRUE, list |-> <<>>]
                          ELSE [present |-> FALSE, list |-> <<>>]]

FrontKinds == {"std", "null", "nodesigns", "nospans"}

\* documents of at most MaxShort locations, the last of any kind and those
\* before it of the front kinds, and documents of MaxLocations standard
\* locations of which at most one is of another kind
ShortKindSeqs ==
  { <<>> } \cup {Append(f, k) : f \in StringsUpTo(FrontKinds, MaxShort - 1),
                                k \in LocationKinds}
LongKindSeqs ==
  { [i \in 1..MaxLocations |-> IF i = p THEN k ELSE "std"] :
      p \in 1..MaxLocations, k \in ErrorKinds }

\* documents with an array of locations, a document without leads[0].locations,
\* a document whose leads[0].locations is an object and no array, and a text
\* that is no JSON
SpidaTexts ==
  { [malformed |-> FALSE, hasLocations |-> TRUE, isArray |-> TRUE,
     locations |-> [i \in DOMAIN ks |-> LocationOf(ks[i], i)]] :
      ks \in ShortKindSeqs \cup LongKindSeqs }
  \cup { [malformed |-> FALSE, hasLocations |-> FALSE, isArray |-> FALSE,
          locations |-> <<>>],
         [malformed |-> FALSE, hasLocations |-> TRUE, isArray |-> FALSE,
          locations |-> <<>>],
         [malformed |-> TRUE, hasLocations |-> FALSE, isArray |-> FALSE,
          locations |-> <<>>] }

\* owner is the owner property of the node, empty when it has none
Node(id, spelling, poleNumber) ==
  [id |-> id,
   poleNumberKeys |-> [k \in 1..8 |-> IF k = spelling THEN poleNumber ELSE Empty],
   owner |-> Empty]

N1 == <<"n","1">>
N2 == <<"n","2">>
N3 == <<"n","3">>

\* a power trace, a communication trace and a trace of neither category
StdTraces ==
  [t \in {"t1", "t2", "t3"} |->
     CASE t = "t1" -> Trace(W_CPS, W_Primary)
       [] t = "t2" -> Trace(W_ATandT, W_Fiber)
       [] t = "t3" -> Trace(Empty, Empty)]

KatapultText(nodes, connections) ==
  [malformed |-> FALSE, nodes |-> nodes, connections |-> connections,
   traces |-> StdTraces]

KatapultTexts ==
  { \* no node and no connection
    KatapultText(<<>>, <<>>),
    \* node ids distinct from the pole numbers, as in the demo data
    KatapultText(<< Node(N1, 1, PoleLabel(1)), Node(N2, 3, PoleLabel(2)) >>,
                 << Conn(N1, N2, W_aerial_path, << Obs("t1", SomeHeight(270), 0) >>) >>),
    \* node ids that are the pole numbers, pole numbers with a prefix
    KatapultText(<< Node(PoleLabel(1), 1, <<"1","-">> \o PoleLabel(1)),
                    Node(PoleLabel(2), 2, <<"1","-">> \o PoleLabel(2)) >>,
                 << Conn(PoleLabel(1), PoleLabel(2), W_aerial_path,
                         << Obs("t1", SomeHeight(270), -6) >>) >>),
    \* an underground connection between the first two poles
    KatapultText(<< Node(PoleLabel(1), 1, PoleLabel(1)) >>,
                 << Conn(PoleLabel(1), PoleLabel(2), W_underground_path,
                         << Obs("t1", SomeHeight(270), 0) >>) >>),
    \* connections whose end points have no pole number among the nodes
    KatapultText(<< Node(PoleLabel(1), 1, Empty) >>,
                 << Conn(PoleLabel(1), PoleLabel(2), W_aerial_path,
                         << Obs("t1", SomeHeight(270), 0) >>) >>),
    \* a pole with two aerial spans and a reference span, wires of the two
    \* categories and of neither
    KatapultText(<< [Node(N1, 1, PoleLabel(1)) EXCEPT !.owner = W_ATandT],
                    Node(N2, 1, PoleLabel(3)), Node(N3, 1, PoleLabel(4)) >>,
                 << Conn(N2, N1, W_aerial_path,
                         << Obs("t2", SomeHeight(257), 0), Obs("t1", SomeHeight(350), 0) >>),
                    Conn(N1, N3, W_aerial_path,
                         << Obs("t1", SomeHeight(330), 0), Obs("t3", SomeHeight(100), 0) >>),
                    Conn(N1, N3, W_ref, << Obs("t2", SomeHeight(200), 0) >>) >>),
    \* two nodes whose pole numbers have the same canonical id
    KatapultText(<< Node(N1, 1, PoleLabel(1)), Node(N2, 1, <<"1","-">> \o PoleLabel(1)) >>,
                 <<>>),
    [malformed |-> TRUE, nodes |-> <<>>, connections |-> <<>>, traces |-> StdTraces] }

\* the parts of the state a specification leaves unused
MidIdle == [pc |-> "off"]
NormIdle == [pc |-> "off", in |-> <<>>, once |-> <<>>, twice |-> <<>>,
             uonce |-> <<>>, utwice |-> <<>>]
HgtIdle == [pc |-> "off", n |-> 0, str |-> <<>>, parsed |-> NullHeight]

DsgIdle == [pc |-> "off", names |-> <<>>,
            indices |-> [found |-> FALSE, measured |-> 0, recommended |-> 0]]
HdrIdle == [pc |-> "off", wireEndPoint |-> NullWireEndPoint, header |-> <<>>]

Init ==
  /\ ProcConstructed
  /\ firstRun = NoRun
  /\ xls = XlsNone
  /\ hdr = HdrIdle
  /\ dsg = DsgIdle
  /\ norm = NormIdle
  /\ hgt = HgtIdle
  /\ mid = MidIdle

Next ==
  \/ \E text \in SpidaTexts : LoadSpidaData(text)
  \/ \E text \in KatapultTexts : LoadKatapultData(text)
  \/ ProcessDataBegin
  \/ ProcessLocation
  \/ ProcessDataEnd
  \/ ProcessDataAgain
  \/ GenerateExcel

Spec == Init /\ [][Next]_vars

(***************************************************************************)
(* Specification of the normalizer: an identifier is drawn, normalized,    *)
(* and the result normalized again.                                        *)
(***************************************************************************)
IdAlphabet == {"P", "L", "p", "1", "2", "-"}

PL100 == <<"P","L","1","0","0">>
NamedIds == { PL100, <<"1","-">> \o PL100, ToLowerCase(PL100),
              <<"P","O","L","E","-","7">>, <<" ","P","L","-","7"," ">> }

IdInputs == StringsUpTo(IdAlphabet, MaxIdLen) \cup NamedIds

NormInit ==
  /\ norm \in {[NormIdle EXCEPT !.pc = "input", !.in = x] : x \in IdInputs}
  /\ hgt = HgtIdle
  /\ mid = MidIdle
  /\ ProcConstructed
  /\ firstRun = NoRun
  /\ xls = XlsNone
  /\ hdr = HdrIdle
  /\ dsg = DsgIdle

\* first application of both normalizers
NormalizeOnce ==
  /\ norm.pc = "input"
  /\ norm' = [norm EXCEPT !.pc = "once",
                          !.once = _canonicalizePoleID(norm.in),
                          !.uonce = canonicalizePoleID(norm.in)]
  /\ UNCHANGED <<hgt, mid, dsg, hdr, xls, firstRun, procVars>>

\* second application, to the result of the first
NormalizeTwice ==
  /\ norm.pc = "once"
  /\ norm' = [norm EXCEPT !.pc = "twice",
                          !.twice = _canonicalizePoleID(norm.once),
                          !.utwice = canonicalizePoleID(norm.uonce)]
  /\ UNCHANGED <<hgt, mid, dsg, hdr, xls, firstRun, procVars>>

NormNext == NormalizeOnce \/ NormalizeTwice
SpecNorm == NormInit /\ [][NormNext]_vars

(***************************************************************************)
(* Specification of the height round trip: an inch count is drawn,         *)
(* formatted, and the display string parsed.                               *)
(***************************************************************************)
HgtInit ==
  /\ hgt \in {[HgtIdle EXCEPT !.pc = "input", !.n = n] : n \in 0..MaxInchCount}
  /\ norm = NormIdle
  /\ mid = MidIdle
  /\ ProcConstructed
  /\ firstRun = NoRun
  /\ xls = XlsNone
  /\ hdr = HdrIdle
  /\ dsg = DsgIdle

FormatHeight ==
  /\ hgt.pc = "input"
  /\ hgt' = [hgt EXCEPT !.pc = "formatted",
                        !.str = formatHeightToString(SomeHeight(hgt.n))]
  /\ UNCHANGED <<norm, mid, dsg, hdr, xls, firstRun, procVars>>

ParseHeight ==
  /\ hgt.pc = "formatted"
  /\ hgt' = [hgt EXCEPT !.pc = "parsed", !.parsed = parseHeightToInches(hgt.str)]
  /\ UNCHANGED <<norm, mid, dsg, hdr, xls, firstRun, procVars>>

HgtNext == FormatHeight \/ ParseHeight
SpecHeight == HgtInit /\ [][HgtNext]_vars

(***************************************************************************)
(* Specification of the mid-span search: a field-survey document, a span   *)
(* and a design-survey wire are drawn and _getMidSpanProposedHeight is     *)
(* applied to them.                                                        *)
(***************************************************************************)
PL1 == <<"P","L","1">>
PL2 == <<"P","L","2">>
N8 == <<"n","8">>
N9 == <<"n","9">>

ObsChoices == { Obs("t1", SomeHeight(270), 0), Obs("t1", SomeHeight(340), -10),
                Obs("t2", SomeHeight(270), -6), Obs("t1", NullHeight, 0) }

ObsCatalog == StringsUpTo(ObsChoices, MaxObs)

MidEndpoints == { <<PL1, PL2>>, <<N9, PL1>> }
MidButtonTypes == { W_aerial_path, W_underground_path, W_ref }

MidFirstConnections ==
  { Conn(e[1], e[2], bt, obs) : e \in MidEndpoints, bt \in MidButtonTypes,
                                obs \in ObsCatalog }

MidMoreConnections ==
  { <<>>, << Conn(N8, PL1, W_underground_path, <<>>) >> }

MidTraces ==
  { [t \in {"t1", "t2"} |-> IF t = "t1" THEN Trace(c, y) ELSE Trace(W_ATandT, W_Fiber)] :
      c \in {W_CPS, W_ATandT}, y \in {W_CoaxTrunk, W_Primary} }

MidDocs ==
  { [nodes |-> <<>>, connections |-> <<c>> \o more, traces |-> tr] :
      c \in MidFirstConnections, more \in MidMoreConnections, tr \in MidTraces }

MidWires ==
  { SpidaWire("w1", o, d, h) : o \in {W_CPS, W_ATT}, d \in {W_Coax, W_Primary},
                               h \in {Value(540)} }

MidInit ==
  /\ mid \in { [pc |-> "input", doc |-> d, fromPoleId |-> PL1, toPoleId |-> t,
                spidaWire |-> w, isRefConnection |-> r, result |-> Empty] :
                d \in MidDocs, t \in {PL2, Empty}, w \in MidWires, r \in BOOLEAN }
  /\ norm = NormIdle
  /\ hgt = HgtIdle
  /\ ProcConstructed
  /\ firstRun = NoRun
  /\ xls = XlsNone
  /\ hdr = HdrIdle
  /\ dsg = DsgIdle

\* one call of _getMidSpanProposedHeight, as _extractSpanData makes it
GetMidSpanProposedHeight ==
  /\ mid.pc = "input"
  /\ mid' = [mid EXCEPT
       !.pc = "done",
       !.result = _getMidSpanProposedHeight(mid.doc, mid.fromPoleId, mid.toPoleId,
                    _getAttachmentDescription(mid.spidaWire), mid.spidaWire,
                    mid.isRefConnection)]
  /\ UNCHANGED <<norm, hgt, dsg, hdr, xls, firstRun, procVars>>

MidNext == GetMidSpanProposedHeight
SpecMidspan == MidInit /\ [][MidNext]_vars

\* the processed connection searched in the current state of the mid-span
\* search, and the scores of its wires
MidConnection ==
  MatchingConnection(processKatapultData(mid.doc), mid.fromPoleId, mid.toPoleId,
                     _getAttachmentDescription(mid.spidaWire), mid.isRefConnection)
MidScore(i) ==
  MatchScore(MidConnection.c.wires[i], mid.spidaWire,
             _getAttachmentDescription(mid.spidaWire))
MidUnderground ==
  \E i \in DOMAIN mid.doc.connections :
    LET c == mid.doc.connections[i]
    IN /\ Includes(c.button_type, W_underground)
       /\ \/ Includes(c.node_id_1, mid.fromPoleId) /\ Includes(c.node_id_2, mid.toPoleId)
          \/ Includes(c.node_id_1, mid.toPoleId) /\ Includes(c.node_id_2, mid.fromPoleId)
          \/ mid.isRefConnection /\ (Includes(c.node_id_1, mid.fromPoleId)
                                       \/ Includes(c.node_id_2, mid.fromPoleId))
\* the value shown for a wire that has been chosen
MidShown(w) ==
  IF ~w.finalProposedMidspanHeight.null
    THEN formatHeightToString(w.finalProposedMidspanHeight)
  ELSE IF ~w.lowestExistingMidspanHeight.null
    THEN Parenthesised(formatHeightToString(w.lowestExistingMidspanHeight))
  ELSE NA

\* C7: a sole candidate scoring exactly the threshold (10 points) is accepted,
\* its height being the result; a sole candidate scoring less is rejected and
\* the result is the no-data value "N/A"
C7_ThresholdAcceptance ==
  (mid.pc = "done" /\ ~MidUnderground /\ MidConnection.found
     /\ Len(MidConnection.c.wires) = 1) =>
    /\ MidScore(1) = AcceptanceThreshold * ScoreUnit
         => mid.result = MidShown(MidConnection.c.wires[1])
    /\ MidScore(1) < AcceptanceThreshold * ScoreUnit => mid.result = NA

\* a sole candidate scoring exactly the threshold was accepted and its
\* height returned
C7_Witness ==
  /\ mid.pc = "done" /\ ~MidUnderground /\ MidConnection.found
  /\ Len(MidConnection.c.wires) = 1
  /\ MidScore(1) = AcceptanceThreshold * ScoreUnit
  /\ mid.result # NA

\* a sole candidate below the threshold was rejected
C7_WitnessRejected ==
  /\ mid.pc = "done" /\ ~MidUnderground /\ MidConnection.found
  /\ Len(MidConnection.c.wires) = 1
  /\ MidScore(1) < AcceptanceThreshold * ScoreUnit
  /\ MidScore(1) > 0
  /\ ~MidConnection.c.wires[1].lowestExistingMidspanHeight.null
  /\ mid.result = NA

\* C8: when a connection that the span touches is an underground path, the
\* mid-span value is "UG" whatever the candidates score
C8_UndergroundOverride ==
  (mid.pc = "done" /\ MidUnderground) => mid.result = UG

\* an underground span whose connection holds a candidate that clears the
\* threshold
C8_Witness ==
  /\ mid.pc = "done" /\ MidUnderground /\ mid.result = UG
  /\ MidConnection.found
  /\ \E i \in DOMAIN MidConnection.c.wires :
       /\ MidScore(i) >= AcceptanceThreshold * ScoreUnit
       /\ ~MidConnection.c.wires[i].lowestExistingMidspanHeight.null

\* C9: when no candidate clears the threshold and the span is not
\* underground, the mid-span value is "N/A"
C9_NoGuess ==
  (mid.pc = "done" /\ ~MidUnderground
     /\ (~MidConnection.found
           \/ \A i \in DOMAIN MidConnection.c.wires :
                MidScore(i) < AcceptanceThreshold * ScoreUnit))
    => mid.result = NA

\* a wire with an attachment height whose span has candidates with heights,
\* none of which clears the threshold
C9_Witness ==
  /\ mid.pc = "done" /\ ~MidUnderground /\ MidConnection.found
  /\ MidConnection.c.wires # <<>>
  /\ \A i \in DOMAIN MidConnection.c.wires :
       /\ MidScore(i) < AcceptanceThreshold * ScoreUnit
       /\ ~MidConnection.c.wires[i].lowestExistingMidspanHeight.null
  /\ mid.spidaWire.attachmentHeight.present
  /\ mid.result = NA

\* C1: normalizing twice gives the same identifier as normalizing once,
\* for the processor's normalizer and for the utility normalizer
C1_Idempotent ==
  norm.pc = "twice" => (norm.twice = norm.once /\ norm.utwice = norm.uonce)

\* C2: parsing the display string of n inches gives n again
C2_RoundTrip ==
  hgt.pc = "parsed" => (~hgt.parsed.null /\ hgt.parsed.v = hgt.n)

(***************************************************************************)
(* Claims about processData                                                *)
(***************************************************************************)
\* processData has entered its loop over the locations of the design survey
InBatch ==
  /\ pc \in {"loop", "done"}
  /\ isDataLoaded
  /\ spidaData.hasLocations
  /\ spidaData.isArray

\* a location that is an object with a string label and at least one design
ValidLocation(loc) ==
  /\ ~loc.isNull
  /\ loc.label.kind = "str"
  /\ loc.designs.present
  /\ loc.designs.list # <<>>

\* the place in processedPoles of the record of the i-th location
RecordIndex(i) == Cardinality({j \in 1..i : visited[j].kind = "record"})
RecordOf(i) == processedPoles[RecordIndex(i)]

\* C3: a location whose extraction fails does not stop the loop and no
\* exception escapes processData: every visited location that is valid has
\* its record, whatever happened to the locations before it, and the call
\* returns only after it has visited every location
C3_BadPoleNeverAborts ==
  InBatch =>
    /\ \A i \in 1..Len(visited) :
         ValidLocation(spidaData.locations[i]) =>
           /\ visited[i].kind = "record"
           /\ RecordOf(i).poleNumber = LabelId(spidaData.locations[i])
    /\ pc = "done" =>
         /\ Len(visited) = Len(spidaData.locations)
         /\ ret \in {"true", "false"}
         /\ Len(processedPoles) =
              Cardinality({i \in 1..Len(visited) :
                             ValidLocation(spidaData.locations[i])})

\* a finished run in which a valid location after a failed one has its record
C3_Witness ==
  /\ InBatch
  /\ pc = "done"
  /\ \E i, j \in 1..Len(visited) :
       /\ i < j
       /\ visited[i].kind # "record"
       /\ visited[j].kind = "record"
       /\ ValidLocation(spidaData.locations[j])

\* C4: ten locations of which exactly one is malformed give nine records and
\* exactly one error, a POLE_PROCESSING_ERROR that names the label of the
\* malformed location
C4_OneMalformedInTen ==
  LET locs == spidaData.locations
      bad == {i \in 1..Len(locs) : ~ValidLocation(locs[i])}
  IN (InBatch /\ pc = "done" /\ Len(locs) = 10 /\ Cardinality(bad) = 1) =>
       /\ Len(processedPoles) = 9
       /\ Len(errors) = 1
       /\ errors[1].code = "POLE_PROCESSING_ERROR"
       /\ \A i \in bad : ~locs[i].isNull => errors[1].label = locs[i].label.s

\* the attachments of all spans of a record
AllAttachments(poleData) ==
  Flatten([k \in DOMAIN poleData.spans |-> poleData.spans[k].attachments])

\* C5: a valid location whose canonical id is no key of the field lookup map
\* has a record with its structural fields set and "N/A" in the fields that
\* come from the field survey, and no error is recorded for it
C5_UnmatchedPoleRecord ==
  InBatch =>
    \A i \in 1..Len(visited) :
      LET loc == spidaData.locations[i]
      IN (ValidLocation(loc) /\ ~MapGet(katapultPoleLookupMap, LabelId(loc)).found) =>
           /\ visited[i].kind = "record"
           /\ RecordOf(i).poleNumber = LabelId(loc)
           /\ RecordOf(i).poleOwner # Empty
           /\ RecordOf(i).heightLowestCom = NA
           /\ RecordOf(i).heightLowestCpsElectrical = NA
           /\ \A k \in DOMAIN AllAttachments(RecordOf(i)) :
                AllAttachments(RecordOf(i))[k].midSpanProposed = NA
           /\ \A e \in DOMAIN errors : errors[e].label # loc.label.s

PrefixedPL100 == <<"1", "-">> \o PL100

\* the location labelled PL100, the only one of the document with this
\* canonical id, when a node of the field survey has the pole number 1-PL100
C6_Cases ==
  IF InBatch /\ \E n \in DOMAIN katapultData.nodes :
                  PoleNumberOf(katapultData.nodes[n]) = PrefixedPL100
    THEN {i \in 1..Len(visited) :
            /\ ValidLocation(spidaData.locations[i])
            /\ spidaData.locations[i].label.s = PL100
            /\ \A j \in DOMAIN spidaData.locations :
                 j # i => \/ CanonicalizeThrows(spidaData.locations[j])
                          \/ LabelId(spidaData.locations[j]) # PL100}
  ELSE {}

\* C6: the label PL100 and the pole number 1-PL100 have the same key PL100,
\* and the location gets exactly one record, joined with the field node
C6_PrefixedNodeMatched ==
  \A i \in C6_Cases :
    /\ _canonicalizePoleID(PL100) = PL100
    /\ _canonicalizePoleID(PrefixedPL100) = PL100
    /\ visited[i].kind = "record"
    /\ visited[i].katapultPoleData.found
    /\ PoleNumberOf(visited[i].katapultPoleData.val) = PrefixedPL100
    /\ Cardinality({j \in 1..Len(processedPoles) :
                      processedPoles[j].poleNumber = PL100}) = 1

C6_Witness == pc = "done" /\ C6_Cases # {}

\* every wire of the recommended design has a wire of the same id and the
\* same attachment height in the measured design
EqualHeights(loc) ==
  LET ix == _findDesignIndices(loc)
      rw == loc.designs.list[ix.recommended].wires
      mw == loc.designs.list[ix.measured].wires
  IN /\ rw # <<>>
     /\ \A r \in DOMAIN rw :
          /\ rw[r].attachmentHeight.present
          /\ \E m \in DOMAIN mw :
               /\ mw[m].id = rw[r].id
               /\ mw[m].attachmentHeight = rw[r].attachmentHeight

\* C10: an attachment whose existing and proposed heights are equal is in
\* the record with both heights set and equal
C10_EqualHeightsKept ==
  InBatch =>
    \A i \in 1..Len(visited) :
      (ValidLocation(spidaData.locations[i]) /\ EqualHeights(spidaData.locations[i])) =>
        \A k \in DOMAIN AllAttachments(RecordOf(i)) :
          LET a == AllAttachments(RecordOf(i))[k]
          IN /\ a.existingHeight = a.proposedHeight
             /\ a.proposedHeight # Empty
             /\ a.existingHeight # NA

\* the recommended design of the location has no wire end point
ZeroSpans(loc) ==
  LET ix == _findDesignIndices(loc)
  IN /\ ValidLocation(loc)
     /\ ix.found
     /\ \/ ~loc.designs.list[ix.recommended].wireEndPoints.present
        \/ loc.designs.list[ix.recommended].wireEndPoints.list = <<>>

\* C11: the iteration of processData over a location without spans appends
\* exactly one record, whose spans list is empty, and records no error
C11_ZeroSpansRecord ==
  [][(pc = "loop" /\ idx <= Len(spidaData.locations)
        /\ ZeroSpans(spidaData.locations[idx]))
       => /\ Len(processedPoles') = Len(processedPoles) + 1
          /\ SubSeq(processedPoles', 1, Len(processedPoles)) = processedPoles
          /\ processedPoles'[Len(processedPoles')].spans = <<>>
          /\ processedPoles'[Len(processedPoles')].poleNumber =
               LabelId(spidaData.locations[idx])
          /\ errors' = errors
          /\ pc' = "loop"]_vars

\* a finished run with the record of a location without spans
C11_Witness ==
  /\ InBatch
  /\ pc = "done"
  /\ ret = "true"
  /\ \E i \in 1..Len(visited) :
       /\ ZeroSpans(spidaData.locations[i])
       /\ visited[i].kind = "record"
       /\ RecordOf(i).spans = <<>>

\* the existing mid-span heights of the wires of a category in the
\* connections that have the node as an end point, of the aerial ones only
\* or of every type
SpanHeights(connections, nodeId, cat, aerialOnly) ==
  UNION { { connections[c].wires[w].lowestExistingMidspanHeight.v :
              w \in { k \in DOMAIN connections[c].wires :
                        /\ ~connections[c].wires[k].lowestExistingMidspanHeight.null
                        /\ WireCategoryOf(connections[c].wires[k]) = cat } } :
          c \in { d \in DOMAIN connections :
                    /\ \/ connections[d].fromPoleId = nodeId
                       \/ connections[d].toPoleId = nodeId
                    /\ aerialOnly => IsAerialType(connections[d].buttonType) } }

\* the field of a record shows the least of the heights, "N/A" for none
ShowsLowest(field, heights) ==
  IF heights = {} THEN field = NA
  ELSE \E h \in heights :
         /\ \A x \in heights : h <= x
         /\ field = formatHeightToString(SomeHeight(h))

LowestOfRecord(poleData, connections, nodeId, aerialOnly) ==
  /\ ShowsLowest(poleData.heightLowestCom,
                 SpanHeights(connections, nodeId, "COMMUNICATION", aerialOnly))
  /\ ShowsLowest(poleData.heightLowestCpsElectrical,
                 SpanHeights(connections, nodeId, "CPS_ELECTRICAL", aerialOnly))

LowestOfRecords(connections, aerialOnly) ==
  \A i \in 1..Len(visited) :
    (visited[i].kind = "record" /\ visited[i].katapultPoleData.found) =>
      LowestOfRecord(RecordOf(i), connections, visited[i].katapultPoleData.val.id,
                     aerialOnly)

C12_Cases(connections) ==
  {i \in 1..Len(visited) :
     /\ visited[i].kind = "record"
     /\ visited[i].katapultPoleData.found
     /\ SpanHeights(connections, visited[i].katapultPoleData.val.id,
                    "COMMUNICATION", TRUE) = {257}
     /\ SpanHeights(connections, visited[i].katapultPoleData.val.id,
                    "CPS_ELECTRICAL", TRUE) = {330, 350}
     /\ SpanHeights(connections, visited[i].katapultPoleData.val.id,
                    "OTHER", TRUE) = {100}}

NodesOfKey(key) ==
  {n \in DOMAIN katapultData.nodes :
     /\ PoleNumberOf(katapultData.nodes[n]) # Empty
     /\ KatapultKey(katapultData.nodes[n]) = key}

\* C13: once processData has built the lookup of the field nodes, each key
\* holds the first node of the document that has this canonical id
C13_FirstNodeKept ==
  (pc # "idle" /\ isDataLoaded) =>
    \A e \in DOMAIN katapultPoleLookupMap :
      \A n \in NodesOfKey(katapultPoleLookupMap[e].key) :
        (\A m \in NodesOfKey(katapultPoleLookupMap[e].key) : n <= m) =>
          katapultPoleLookupMap[e].val = katapultData.nodes[n]

\* C14: no two records of a run have the same canonical id
C14_UniqueCanonicalId ==
  \A i, j \in DOMAIN processedPoles :
    processedPoles[i].poleNumber = processedPoles[j].poleNumber => i = j

\* C15: a run on a design survey without an array at leads[0].locations
\* returns false, records an INVALID_STRUCTURE error and emits no record
C15_InvalidStructure ==
  (pc = "done" /\ isDataLoaded /\ ~spidaData.isArray) =>
    /\ ret = "false"
    /\ \E e \in DOMAIN errors : errors[e].code = "INVALID_STRUCTURE"
    /\ processedPoles = <<>>

\* the extraction of the spans of the location meets a wire end point that
\* is null, a failure it recovers from
SpanFailure(loc) ==
  LET ix == _findDesignIndices(loc)
  IN /\ ValidLocation(loc)
     /\ ix.found
     /\ loc.designs.list[ix.recommended].wireEndPoints.present
     /\ \E w \in DOMAIN loc.designs.list[ix.recommended].wireEndPoints.list :
          loc.designs.list[ix.recommended].wireEndPoints.list[w].isNull

\* C16: every failure the run recovers from has its entry in the error list:
\* a location that cannot be processed, and a location with a span that
\* cannot be processed, are named by an entry of errors
C16_RecoveredErrorsListed ==
  InBatch =>
    \A i \in 1..Len(visited) :
      (visited[i].kind # "record" \/ SpanFailure(spidaData.locations[i])) =>
        \E e \in DOMAIN errors :
          errors[e].label = LabelText(spidaData.locations[i])

\* C17: a run over a document that has its array of locations, with at
\* least one location in it, returns true however many of the locations
\* failed
C17_PoleFailuresStayPoleLevel ==
  (InBatch /\ pc = "done" /\ spidaData.locations # <<>>) => ret = "true"

\* the attachment heights of the wires of a category in the measured design
\* of a location, the category taken from the owner and the description; a
\* height of 0 counts as not set
StructuralHeights(loc, cat) ==
  LET wires == loc.designs.list[_findDesignIndices(loc).measured].wires
  IN { wires[w].attachmentHeight.v :
         w \in { k \in DOMAIN wires :
                   /\ wires[k].attachmentHeight.present
                   /\ wires[k].attachmentHeight.v # 0
                   /\ WireCategoryOf([company |-> wires[k].owner,
                                      cableType |-> wires[k].description]) = cat } }

\* the field of a record shows the least of the structural heights
ShowsStructural(field, heights) ==
  IF heights = {} THEN field = NA
  ELSE field = _metersToFeetInches(Value(MinOf(heights)))

\* the lowest heights of every record: from the field survey for a pole that
\* has a field node, from the measured design for a pole that has none
FieldElseStructural(connections) ==
  \A i \in 1..Len(visited) :
    visited[i].kind = "record" =>
      IF visited[i].katapultPoleData.found
        THEN LowestOfRecord(RecordOf(i), connections,
                            visited[i].katapultPoleData.val.id, TRUE)
      ELSE /\ ShowsStructural(RecordOf(i).heightLowestCom,
                              StructuralHeights(spidaData.locations[i], "COMMUNICATION"))
           /\ ShowsStructural(RecordOf(i).heightLowestCpsElectrical,
                              StructuralHeights(spidaData.locations[i], "CPS_ELECTRICAL"))

\* C18: the lowest existing heights of a record come from the field survey
\* when the pole has field data, and from the attachment heights of the
\* structural model when it has none
C18_FieldElseStructural ==
  InBatch => FieldElseStructural(processKatapultData(katapultData))

\* the owner of the pole in the measured design of a location
StructuralOwner(loc) ==
  loc.designs.list[_findDesignIndices(loc).measured].poleOwner

\* the owner by priority: the field node's, the structural model's, "Unknown"
OwnerByPriority(loc, katapultPoleData) ==
  IF katapultPoleData.found /\ katapultPoleData.val.owner # Empty
    THEN katapultPoleData.val.owner
  ELSE IF StructuralOwner(loc) # Empty THEN StructuralOwner(loc)
  ELSE Unknown

\* C19: the pole owner of a record is the owner of the field node when it
\* has one, else the owner of the structural model, else "Unknown"
C19_OwnerPriority ==
  InBatch =>
    \A i \in 1..Len(visited) :
      visited[i].kind = "record" =>
        RecordOf(i).poleOwner =
          OwnerByPriority(spidaData.locations[i], visited[i].katapultPoleData)

\* the canonical ids of the poles at the other end of the connections of
\* the field node of a pole
FieldEnds(connections, lookupMap, katapultPoleData) ==
  IF ~katapultPoleData.found THEN {}
  ELSE { lookupMap[e].key :
           e \in { k \in DOMAIN lookupMap :
                     \E c \in DOMAIN connections :
                       \/ /\ connections[c].fromPoleId = katapultPoleData.val.id
                          /\ connections[c].toPoleId = lookupMap[k].val.id
                       \/ /\ connections[c].toPoleId = katapultPoleData.val.id
                          /\ connections[c].fromPoleId = lookupMap[k].val.id } }

\* the labels of the previous-pole and next-pole wire end points of the
\* recommended design of a location
StructuralEnds(loc) ==
  LET wireEndPoints == loc.designs.list[_findDesignIndices(loc).recommended].wireEndPoints
  IN IF ~wireEndPoints.present THEN {}
     ELSE { wireEndPoints.list[w].structureLabel :
              w \in { k \in DOMAIN wireEndPoints.list :
                        /\ wireEndPoints.list[k].type \in {"NEXT_POLE", "PREVIOUS_POLE"}
                        /\ wireEndPoints.list[k].structureLabel # Empty } }

\* the from and to poles of a record follow the priority: an end of a field
\* connection, else a label of the structural model, else own id and "N/A"
FromToByPriority(poleData, loc, fieldEnds, structuralEnds) ==
  IF fieldEnds # {} THEN poleData.toPole \in fieldEnds
  ELSE IF structuralEnds # {}
    THEN poleData.fromPole = LabelId(loc) /\ poleData.toPole \in structuralEnds
  ELSE poleData.fromPole = LabelId(loc) /\ poleData.toPole = NA

FromToOfRecords(connections) ==
  \A i \in 1..Len(visited) :
    (visited[i].kind = "record" /\ ~SpanFailure(spidaData.locations[i])) =>
      FromToByPriority(RecordOf(i), spidaData.locations[i],
                       FieldEnds(connections, katapultPoleLookupMap,
                                 visited[i].katapultPoleData),
                       StructuralEnds(spidaData.locations[i]))

\* C20: the to pole of a record is an end of a connection of the pole's
\* field node when one resolves to a pole, else a previous-pole or next-pole
\* label of the structural model, else "N/A" with the pole's own id as from
C20_FromToPriority ==
  InBatch => FromToOfRecords(processKatapultData(katapultData))

\* the wire end points of the recommended design of the location of which a
\* wire id names a wire of that design, in their order
EndPointsWithWires(loc) ==
  LET r == loc.designs.list[_findDesignIndices(loc).recommended]
      named(w) == /\ ~w.isNull
                  /\ \E k \in DOMAIN w.wires : \E x \in DOMAIN r.wires : r.wires[x].id = w.wires[k]
  IN IF r.wireEndPoints.present THEN SelectSeq(r.wireEndPoints.list, named) ELSE <<>>

\* the descriptions of the wires of the recommended design that the wire ids
\* of the end point name, in the order of the ids
DescriptionsInOrder(loc, wireEndPoint) ==
  LET r == loc.designs.list[_findDesignIndices(loc).recommended]
      known(id) == \E x \in DOMAIN r.wires : r.wires[x].id = id
      ids == SelectSeq(wireEndPoint.wires, known)
  IN [k \in DOMAIN ids |->
        _getAttachmentDescription(
          r.wires[CHOOSE x \in DOMAIN r.wires : r.wires[x].id = ids[k]])]

\* the spans of the record are those of the end points, one after the other,
\* and the attachments of each span follow the wire ids of its end point
SpansInOrder(poleData, loc) ==
  LET weps == EndPointsWithWires(loc)
  IN /\ Len(poleData.spans) = Len(weps)
     /\ \A k \in DOMAIN weps :
          /\ poleData.spans[k].spanHeader = _generateSpanHeader(weps[k])
          /\ [a \in DOMAIN poleData.spans[k].attachments |->
                poleData.spans[k].attachments[a].description]
               = DescriptionsInOrder(loc, weps[k])

\* C21: the spans of a record are in the order of the wire end points of the
\* recommended design, and the attachments of a span are in the order of the
\* wire ids of its end point
C21_OrderPreserved ==
  InBatch =>
    \A i \in 1..Len(visited) :
      (visited[i].kind = "record" /\ _findDesignIndices(spidaData.locations[i]).found) =>
        SpansInOrder(RecordOf(i), spidaData.locations[i])

\* a record with several spans of different headers, one of them with
\* several attachments of different descriptions
C21_Witness ==
  /\ InBatch
  /\ pc = "done"
  /\ \E i \in 1..Len(visited) :
       /\ visited[i].kind = "record"
       /\ Len(RecordOf(i).spans) >= 3
       /\ RecordOf(i).spans[1].spanHeader # RecordOf(i).spans[2].spanHeader
       /\ Len(RecordOf(i).spans[1].attachments) >= 2
       /\ RecordOf(i).spans[1].attachments[1].description #
            RecordOf(i).spans[1].attachments[2].description

\* the nodes of the field survey whose pole number is the label of the
\* location up to the case of its letters
NodesOfLabel(loc) ==
  {n \in DOMAIN katapultData.nodes :
     /\ PoleNumberOf(katapultData.nodes[n]) # Empty
     /\ ToUpperCase(PoleNumberOf(katapultData.nodes[n])) = ToUpperCase(loc.label.s)}

\* C22: a label and a pole number that differ only in the case of their
\* letters have the same key, and the location is matched to the node
C22_CaseInsensitiveMatch ==
  InBatch =>
    \A i \in 1..Len(visited) :
      LET loc == spidaData.locations[i]
      IN (ValidLocation(loc) /\ NodesOfLabel(loc) # {}) =>
           /\ \A n \in NodesOfLabel(loc) : KatapultKey(katapultData.nodes[n]) = LabelId(loc)
           /\ visited[i].kind = "record"
           /\ visited[i].katapultPoleData.found

\* the wires of the searched connection that reach the acceptance threshold,
\* and the one among them with the highest score that comes first
MidAccepted ==
  {i \in DOMAIN MidConnection.c.wires : MidScore(i) >= AcceptanceThreshold * ScoreUnit}
MidBest ==
  CHOOSE i \in MidAccepted :
    \A j \in MidAccepted :
      MidScore(j) < MidScore(i) \/ (MidScore(j) = MidScore(i) /\ i <= j)

\* C23: among the wires that reach the threshold the one with the highest
\* score gives the result, and among several with the highest score the one
\* that comes first in the wires of the connection
C23_HighestFirstWins ==
  (mid.pc = "done" /\ ~MidUnderground /\ MidConnection.found /\ MidAccepted # {}) =>
    mid.result = MidShown(MidConnection.c.wires[MidBest])

\* two accepted wires with the same score and different heights, the result
\* being the height of the first
C23_Witness ==
  /\ mid.pc = "done" /\ ~MidUnderground /\ MidConnection.found
  /\ \E i, j \in MidAccepted :
       /\ i < j
       /\ MidScore(i) = MidScore(j)
       /\ MidShown(MidConnection.c.wires[i]) # MidShown(MidConnection.c.wires[j])
       /\ MidConnection.c.wires[i].traceId = "t2"
       /\ mid.result = MidShown(MidConnection.c.wires[i])

\* two accepted wires of which the second has the higher score, the result
\* being the height of the second
C23_WitnessHigher ==
  /\ mid.pc = "done" /\ ~MidUnderground /\ MidConnection.found
  /\ \E i, j \in MidAccepted :
       /\ i < j
       /\ MidScore(i) < MidScore(j)
       /\ MidShown(MidConnection.c.wires[i]) # MidShown(MidConnection.c.wires[j])
       /\ mid.result = MidShown(MidConnection.c.wires[j])

\* the wire that wins the search of the current state
MidWinner == MidConnection.c.wires[MidBest]

\* C24: a winning wire with a proposed mid-span height gives that height,
\* written without parentheses; a winning wire with an existing height only
\* gives the existing height between parentheses
C24_ProposedBareExistingParenthesised ==
  (mid.pc = "done" /\ ~MidUnderground /\ MidConnection.found /\ MidAccepted # {}) =>
    /\ ~MidWinner.finalProposedMidspanHeight.null =>
         /\ mid.result = formatHeightToString(MidWinner.finalProposedMidspanHeight)
         /\ "(" \notin Range(mid.result)
    /\ (MidWinner.finalProposedMidspanHeight.null
          /\ ~MidWinner.lowestExistingMidspanHeight.null) =>
         /\ Len(mid.result) > 2
         /\ Head(mid.result) = "("
         /\ mid.result[Len(mid.result)] = ")"
         /\ SubSeq(mid.result, 2, Len(mid.result) - 1) =
              formatHeightToString(MidWinner.lowestExistingMidspanHeight)

\* a winning wire whose proposed height differs from its existing height,
\* the result being the proposed height
C24_Witness ==
  /\ mid.pc = "done" /\ ~MidUnderground /\ MidConnection.found /\ MidAccepted # {}
  /\ ~MidWinner.finalProposedMidspanHeight.null
  /\ ~MidWinner.lowestExistingMidspanHeight.null
  /\ MidWinner.finalProposedMidspanHeight # MidWinner.lowestExistingMidspanHeight
  /\ mid.result = formatHeightToString(MidWinner.finalProposedMidspanHeight)

\* a winning wire with an existing height only, the result being that height
\* between parentheses
C24_WitnessExisting ==
  /\ mid.pc = "done" /\ ~MidUnderground /\ MidConnection.found /\ MidAccepted # {}
  /\ MidWinner.finalProposedMidspanHeight.null
  /\ ~MidWinner.lowestExistingMidspanHeight.null
  /\ Head(mid.result) = "("

(***************************************************************************)
(* Specification of the search for the two designs of a location: the      *)
(* names of the designs are drawn and _findDesignIndices is applied.       *)
(***************************************************************************)
W_Measured == <<"M","e","a","s","u","r","e","d">>
W_Existing == <<"E","x","i","s","t","i","n","g">>
W_Recommended == <<"R","e","c","o","m","m","e","n","d","e","d">>
W_Proposed == <<"P","r","o","p","o","s","e","d">>
W_Draft == <<"D","r","a","f","t">>
W_Design == <<" ","D","e","s","i","g","n">>

\* names of designs; the empty name stands for a design without name
DesignNames == {W_MeasuredDesign, W_RecommendedDesign, W_Existing \o W_Design,
                W_Proposed \o W_Design, W_Draft, Empty}

\* a location with designs of the given names
DsgLocation(names) ==
  Location(StrLabel(PL100), [i \in DOMAIN names |-> Design(names[i], <<>>, <<>>)])

DsgInit ==
  /\ dsg \in {[DsgIdle EXCEPT !.pc = "input", !.names = n] :
                n \in StringsUpTo(DesignNames, MaxDesigns)}
  /\ norm = NormIdle
  /\ hgt = HgtIdle
  /\ mid = MidIdle
  /\ hdr = HdrIdle
  /\ ProcConstructed
  /\ firstRun = NoRun
  /\ xls = XlsNone

\* one call of _findDesignIndices
FindDesignIndices ==
  /\ dsg.pc = "input"
  /\ dsg' = [dsg EXCEPT !.pc = "done",
                        !.indices = _findDesignIndices(DsgLocation(dsg.names))]
  /\ UNCHANGED <<norm, hgt, mid, hdr, xls, firstRun, procVars>>

DsgNext == FindDesignIndices
SpecDesigns == DsgInit /\ [][DsgNext]_vars

\* the positions of the designs whose name holds one of the given words
NamedAs(names, words) ==
  {i \in DOMAIN names : \E w \in words : Includes(names[i], w)}

\* the design found by its name, else the one at the given position
ByNameElse(named, position) ==
  IF named = {} THEN position ELSE CHOOSE i \in named : TRUE

\* C25: the measured design is the one whose name holds "Measured" or
\* "Existing" and the recommended design the one whose name holds
\* "Recommended" or "Proposed"; without such a name the measured design is
\* the first design and the recommended design the second, or the first
\* when there is only one
C25_DesignsByNameElsePosition ==
  LET m == NamedAs(dsg.names, {W_Measured, W_Existing})
      r == NamedAs(dsg.names, {W_Recommended, W_Proposed})
  IN (dsg.pc = "done" /\ dsg.names # <<>> /\ Cardinality(m) <= 1 /\ Cardinality(r) <= 1) =>
       /\ dsg.indices.found
       /\ dsg.indices.measured = ByNameElse(m, 1)
       /\ dsg.indices.recommended = ByNameElse(r, IF Len(dsg.names) > 1 THEN 2 ELSE 1)

\* the last of the given positions
LastOf(S) == CHOOSE i \in S : \A j \in S : j <= i

\* C25 (amended): the measured design is the last design whose name holds
\* "Measured Design", else the first design; the recommended design is the last one
\* whose name holds "Recommended Design", else the second design, or the
\* first when there is only one
C25_DesignsByDesignName ==
  LET m == NamedAs(dsg.names, {W_MeasuredDesign})
      r == NamedAs(dsg.names, {W_RecommendedDesign})
  IN (dsg.pc = "done" /\ dsg.names # <<>>) =>
       /\ dsg.indices.found
       /\ dsg.indices.measured = (IF m = {} THEN 1 ELSE LastOf(m))
       /\ dsg.indices.recommended =
            (IF r # {} THEN LastOf(r) ELSE IF Len(dsg.names) > 1 THEN 2 ELSE 1)

\* three designs of which the second and the third are found by their names
C25_Witness ==
  /\ dsg.pc = "done"
  /\ dsg.names = << W_Draft, W_MeasuredDesign, W_RecommendedDesign >>
  /\ dsg.indices = [found |-> TRUE, measured |-> 2, recommended |-> 3]

\* a single design without name serves as both
C25_WitnessSingle ==
  /\ dsg.pc = "done"
  /\ dsg.names = << Empty >>
  /\ dsg.indices = [found |-> TRUE, measured |-> 1, recommended |-> 1]

(***************************************************************************)
(* Specification of the span header: a wire end point is drawn and         *)
(* _generateSpanHeader is applied.  The direction is absent or a whole     *)
(* number of degrees of the compass.                                       *)
(***************************************************************************)
FullCircle == 360

HdrTypes == {"PREVIOUS_POLE", "NEXT_POLE", "OTHER_POLE", ""}
HdrDirections == {NoValue} \cup {Value(d) : d \in 0..FullCircle}
HdrLabels == {Empty, PoleLabel(2)}

HdrInit ==
  /\ hdr \in {[HdrIdle EXCEPT !.pc = "input",
                              !.wireEndPoint = WireEndPoint(t, d, l, <<"w1">>)] :
                t \in HdrTypes, d \in HdrDirections, l \in HdrLabels}
  /\ norm = NormIdle
  /\ hgt = HgtIdle
  /\ mid = MidIdle
  /\ dsg = DsgIdle
  /\ ProcConstructed
  /\ firstRun = NoRun
  /\ xls = XlsNone

\* one call of _generateSpanHeader
GenerateSpanHeader ==
  /\ hdr.pc = "input"
  /\ hdr' = [hdr EXCEPT !.pc = "done",
                        !.header = _generateSpanHeader(hdr.wireEndPoint)]
  /\ UNCHANGED <<norm, hgt, mid, dsg, xls, firstRun, procVars>>

HdrNext == GenerateSpanHeader
SpecHeader == HdrInit /\ [][HdrNext]_vars

\* the distance in degrees between two directions, the short way round
AngleBetween(a, b) ==
  LET d == Abs((a % FullCircle) - (b % FullCircle))
  IN IF 2 * d > FullCircle THEN FullCircle - d ELSE d

\* the one of the 8 compass points nearest to the direction
NearestCompassPoint(degrees) ==
  Directions[1 + CHOOSE k \in 0..7 :
                   \A j \in 0..7 : AngleBetween(degrees, 45 * k) <= AngleBetween(degrees, 45 * j)]

\* the label composed of the parts that are present
RefLabel(direction, structureLabel) ==
  LET to == <<" ","t","o"," ">> \o structureLabel
      dir == <<" ","(">> \o NearestCompassPoint(direction.v) \o <<")">>
  IN W_Ref \o (IF direction.present THEN dir ELSE <<>>)
           \o (IF structureLabel # Empty THEN to ELSE <<>>)

\* C26: the header is "Backspan" exactly for an end point of type
\* PREVIOUS_POLE; for any other end point it is "Ref", followed by the
\* nearest compass point in parentheses when there is a direction, and by
\* " to " and the label of the adjacent structure when there is one
C26_SpanLabel ==
  hdr.pc = "done" =>
    /\ hdr.header = W_Backspan <=> hdr.wireEndPoint.type = "PREVIOUS_POLE"
    /\ hdr.wireEndPoint.type # "PREVIOUS_POLE" =>
         hdr.header = RefLabel(hdr.wireEndPoint.direction, hdr.wireEndPoint.structureLabel)

\* a reference span to a labelled structure whose direction of 338 degrees
\* is nearest to north
C26_Witness ==
  /\ hdr.pc = "done"
  /\ hdr.wireEndPoint.type = "OTHER_POLE"
  /\ hdr.wireEndPoint.direction = Value(338)
  /\ hdr.header = <<"R","e","f"," ","(","N",")"," ","t","o"," ">> \o PoleLabel(2)

\* the wires of the recommended design of the location whose owner is no
\* string: scoring a wire of the field survey against one of them throws
FailingWires(loc) ==
  LET r == loc.designs.list[_findDesignIndices(loc).recommended]
  IN {r.wires[x] : x \in {k \in DOMAIN r.wires : ~r.wires[k].ownerIsString}}

\* the wire ids of the end points of the location that name a wire of the
\* recommended design, as many as the record must have attachments
AttachmentCount(loc) ==
  LET weps == EndPointsWithWires(loc)
  IN SumLen([k \in DOMAIN weps |-> DescriptionsInOrder(loc, weps[k])])

\* C27: a location with a wire whose mid-span search fails still has its
\* record, with one attachment for every wire of every span, and the
\* attachment of the failing wire has the no-data value "N/A" ("UG" on an
\* underground span, where the search ends before any score is computed)
C27_AttachmentFailureContained ==
  InBatch =>
    \A i \in 1..Len(visited) :
      LET loc == spidaData.locations[i]
      IN (ValidLocation(loc) /\ _findDesignIndices(loc).found /\ FailingWires(loc) # {}) =>
           /\ visited[i].kind = "record"
           /\ Len(AllAttachments(RecordOf(i))) = AttachmentCount(loc)
           /\ \A k \in DOMAIN AllAttachments(RecordOf(i)) :
                \A w \in FailingWires(loc) :
                  AllAttachments(RecordOf(i))[k].description = _getAttachmentDescription(w)
                    => AllAttachments(RecordOf(i))[k].midSpanProposed \in {NA, UG}

\* a record with a span in which the attachment of a failing wire has "N/A"
\* and the attachment after it has a mid-span height
C27_Witness ==
  /\ InBatch
  /\ pc = "done"
  /\ \E i \in 1..Len(visited) :
       /\ visited[i].kind = "record"
       /\ FailingWires(spidaData.locations[i]) # {}
       /\ \E s \in DOMAIN RecordOf(i).spans :
            LET att == RecordOf(i).spans[s].attachments
            IN /\ Len(att) >= 2
               /\ \E w \in FailingWires(spidaData.locations[i]) :
                    att[1].description = _getAttachmentDescription(w)
               /\ att[1].midSpanProposed = NA
               /\ att[2].midSpanProposed \notin {NA, UG}
               /\ \E c \in DOMAIN katapultData.connections :
                    /\ katapultData.connections[c].node_id_1 = RecordOf(i).poleNumber
                    /\ katapultData.connections[c].obs # <<>>

(***************************************************************************)
(* C28.  The sections of the sheet.                                        *)
(***************************************************************************)
\* the rows written for pole p, and the rows of a kind of cell of pole p
RowsOf(ws, p) == {ws[k].row : k \in {j \in DOMAIN ws : ws[j].pole = p}}
RowsOfWhat(ws, p, what) ==
  {ws[k].row : k \in {j \in DOMAIN ws : ws[j].pole = p /\ ws[j].what = what}}
MaxOf(S) == CHOOSE x \in S : \A y \in S : y <= x

\* the value of the cell of a column and a row: that of the last write to it
CellValue(ws, col, row) ==
  ws[MaxOf({k \in DOMAIN ws : ws[k].col = col /\ ws[k].row = row})].v

\* C28: in the generated sheet the From/To header row and the From/To value
\* row are the last two rows of the section of each pole, the first row
\* written for a pole lies strictly below the From/To value row of the pole
\* before it, and the From/To cells of every pole hold its from and to poles.
C28_SectionsDoNotOverlap ==
  xls.pc = "blob" =>
    \A p \in DOMAIN processedPoles :
      LET valueRow == MaxOf(RowsOf(xls.ws, p))
      IN /\ RowsOfWhat(xls.ws, p, "fromToValue") = {valueRow}
         /\ RowsOfWhat(xls.ws, p, "fromToHeader") = {valueRow - 1}
         /\ p > 1 => MinOf(RowsOf(xls.ws, p)) > MaxOf(RowsOf(xls.ws, p - 1))
         /\ CellValue(xls.ws, "J", valueRow) = processedPoles[p].fromPole
         /\ CellValue(xls.ws, "K", valueRow) = processedPoles[p].toPole

(***************************************************************************)
(* C29.  The operation numbers of the records.                             *)
(***************************************************************************)
\* C29: after a run the operation numbers of the records are 1, 2, ..., k in
\* the order of the records, also when locations failed and gave no record;
\* the counter is one more than the number of records.
C29_OperationNumbersConsecutive ==
  pc = "done" =>
    /\ \A k \in DOMAIN processedPoles : processedPoles[k].operationNumber = k
    /\ operationCounter = Len(processedPoles) + 1

\* a run in which a location failed inside _extractPoleData and a later one
\* gave a record, and one in which _canonicalizePoleID threw before a record
C29_Witness ==
  /\ pc = "done"
  /\ \E i, j \in DOMAIN visited :
       i < j /\ visited[i].kind = "null" /\ visited[j].kind = "record"
C29_WitnessThrown ==
  /\ pc = "done"
  /\ \E i, j \in DOMAIN visited :
       i < j /\ visited[i].kind = "thrown" /\ visited[j].kind = "record"

(***************************************************************************)
(* C30.  processData called twice.                                         *)
(***************************************************************************)
\* C30: a second call of processData on the same loaded documents leaves the
\* same records in the same order with the same operation numbers, the same
\* errors, the same return value, the same lookup maps and the same counter
\* as the first call (the state compared is that at the return of the call,
\* before generateExcel), and starts its loop with no record, no error and
\* the counter at 1.
C30_ProcessDataRepeatable ==
  firstRun.pc = "kept" /\ isDataLoaded =>
    /\ pc = "done" /\ xls.pc = "none" =>
         /\ processedPoles = firstRun.processedPoles
         /\ errors = firstRun.errors
         /\ ret = firstRun.ret
         /\ poleLookupMap = firstRun.poleLookupMap
         /\ katapultPoleLookupMap = firstRun.katapultPoleLookupMap
         /\ operationCounter = firstRun.operationCounter
    /\ pc = "loop" /\ idx = 1 =>
         processedPoles = <<>> /\ errors = <<>> /\ operationCounter = 1

\* a second call has returned after a first call that left a record and an error
C30_Witness ==
  /\ firstRun.pc = "kept"
  /\ isDataLoaded
  /\ pc = "done"
  /\ xls.pc = "none"
  /\ firstRun.processedPoles # <<>>
  /\ firstRun.errors # <<>>

====
